---- MODULE Spec2Model ----
(***************************************************************************)
(* Model of the CaseCraft phone-case customiser (src/App.tsx): the SVG     *)
(* template pipeline (getShapeColorType, shapeToPath,                      *)
(* processSingleTemplate, handleTemplateUpload), the template catalog of   *)
(* the App component and the print compositor (generatePrintFile).         *)
(*                                                                         *)
(* JavaScript numbers are modelled as exact rationals [n, d] in lowest     *)
(* terms; every input is an integer or a half, so the arithmetic of the    *)
(* code (x + width, width / 2, bbox.width * 0.05, scaleFactor = 2.5) is    *)
(* exact here as it is for these values in IEEE doubles.                   *)
(***************************************************************************)
EXTENDS Integers, Sequences, FiniteSets, TLC

VARIABLES
    \* --- App component state (src/App.tsx:310-331) ---
    viewMode,          \* ViewMode
    isAdmin,           \* admin flag
    isLoginModalOpen,  \* login modal
    availableModels,   \* the template catalog, a sequence of PhoneModel
    selectedModel,     \* a PhoneModel of the catalog or NoModel
    pendingDeleteId,   \* template id awaiting delete confirmation, or ""
    upload,            \* the handleTemplateUpload call in flight
    nextId,            \* source of fresh template ids (Date.now()/random)
    \* --- one run of processSingleTemplate on a drawn document ---
    tDoc, tOut,
    \* --- one run of shapeToPath / getShapeColorType on a drawn element ---
    el, elPath, elColor,
    \* --- one run of generatePrintFile on a drawn model and design ---
    pModel, pDesign, pOut,
    \* --- the design session (src/App.tsx:329-337, PhoneEditor.tsx:25-53) ---
    design,            \* DesignState
    selectedTextId,    \* id of the selected text element, or ""
    gesture,           \* the pointer gesture of PhoneEditor in progress
    fileLoad,          \* the handleFileUpload call in flight, or Null
    nextText,          \* source of fresh text ids (Date.now())
    edits,             \* the handlers that have set the design so far, in order
    \* --- orders (src/App.tsx:330, 340-348, 1246-1287) ---
    orders,            \* sequence of OrderSubmission, newest first
    isUploading,       \* the submit button's busy flag
    submit,            \* the handleSubmitOrder call in flight
    \* --- the download of handleExportTemplates (src/App.tsx:649-660) ---
    exported,          \* text of the last exported file, or Null
    \* --- Firebase sync (src/services/firebaseService.ts, src/App.tsx:358-529) ---
    firebase,          \* the Firestore project: templates document and orders
    devices            \* per browser: localStorage, the App in it, its queued writes

appVars   == <<viewMode, isAdmin, isLoginModalOpen, availableModels,
               selectedModel, pendingDeleteId, upload, nextId>>
tmplVars  == <<tDoc, tOut>>
shapeVars == <<el, elPath, elColor>>
printVars == <<pModel, pDesign, pOut>>
editVars  == <<design, selectedTextId, gesture, fileLoad, nextText, edits>>
orderVars == <<orders, isUploading, submit>>
fileVars  == <<exported>>
syncVars  == <<firebase, devices>>
vars      == <<appVars, tmplVars, shapeVars, printVars, editVars, orderVars, fileVars,
               syncVars>>

----------------------------------------------------------------------------
(* Bounds of the model *)

\* longest template document, in shapes
MaxShapes == 3
\* most files in one template upload
MaxFiles == 2
\* most templates ever created by uploads
MaxIds == 3
\* most text layers of a design
MaxTexts == 2
\* most transform edits (wheel, drag, pinch, slider, handle) of a session
MaxEdits == 2
\* most orders submitted in a session
MaxOrders == 1

----------------------------------------------------------------------------
(* Exact rational arithmetic standing for JavaScript numbers *)

Abs(i) == IF i < 0 THEN -i ELSE i

RECURSIVE GCD(_, _)
GCD(a, b) == IF b = 0 THEN a ELSE GCD(b, a % b)

\* the rational n/d (d # 0) in lowest terms with a positive denominator
Frac(n, d) ==
    LET g == GCD(Abs(n), Abs(d))
        s == IF d < 0 THEN -1 ELSE 1
    IN  [n |-> (s * n) \div g, d |-> (s * d) \div g]

R(i) == [n |-> i, d |-> 1]

RAdd(p, q) == Frac(p.n * q.d + q.n * p.d, p.d * q.d)
RNeg(p)    == [n |-> -p.n, d |-> p.d]
RSub(p, q) == RAdd(p, RNeg(q))
RMul(p, q) == Frac(p.n * q.n, p.d * q.d)
\* q # 0
RDiv(p, q) == Frac(p.n * q.d, p.d * q.n)
RLt(p, q)  == p.n * q.d < q.n * p.d
RLe(p, q)  == p.n * q.d <= q.n * p.d
RGt(p, q)  == RLt(q, p)
\* Math.min / Math.max
RMin(p, q) == IF RLe(p, q) THEN p ELSE q
RMax(p, q) == IF RLe(p, q) THEN q ELSE p
RHalf(p)   == RDiv(p, R(2))

----------------------------------------------------------------------------
(* SVG elements as the template parser sees them *)

\* an attribute is absent (<<>>) or carries a number (<<v>>)
NoAttr == <<>>
Attr(v) == <<v>>

\* parseFloat(el.getAttribute(name) || '0')
parseFloatOr0(a) == IF a = NoAttr THEN R(0) ELSE R(a[1])

\* A computed colour (style.fill / style.stroke): the keyword and the digit
\* groups /\d+/g finds in the string, e.g. "rgb(255, 0, 255)" -> <<255,0,255>>
Color(kw, nums) == [kw |-> kw, nums |-> nums]
Rgb(r, g, b) == Color("rgb", <<r, g, b>>)
ColNone        == Color("none", <<>>)
ColTransparent == Color("transparent", <<>>)
ColEmpty       == Color("", <<>>)
\* a paint server reference such as url(#g1): one digit group only
ColUrl         == Color("url", <<1>>)
\* rgba(255, 0, 255, 0.5): five digit groups, the first three are r, g, b
ColRgbaMagenta == Color("rgba", <<255, 0, 255, 0, 5>>)

\* a path segment: command letter and numeric arguments
Seg(cmd, args) == [cmd |-> cmd, args |-> args]

\* an SVG element; unused attributes are NoAttr, d is a segment sequence
Elem(tag, fill, stroke, x, y, w, h, rx, ry, cx, cy, r, d) ==
    [tag |-> tag, fill |-> fill, stroke |-> stroke,
     x |-> x, y |-> y, width |-> w, height |-> h, rx |-> rx, ry |-> ry,
     cx |-> cx, cy |-> cy, r |-> r, d |-> d]

Rect(fill, stroke, x, y, w, h, rx, ry) ==
    Elem("rect", fill, stroke, x, y, w, h, rx, ry, NoAttr, NoAttr, NoAttr, <<>>)
Circle(fill, stroke, cx, cy, r) ==
    Elem("circle", fill, stroke, NoAttr, NoAttr, NoAttr, NoAttr, NoAttr, NoAttr,
         cx, cy, r, <<>>)
Ellipse(fill, stroke, cx, cy, rx, ry) ==
    Elem("ellipse", fill, stroke, NoAttr, NoAttr, NoAttr, NoAttr, rx, ry,
         cx, cy, NoAttr, <<>>)
PathEl(fill, stroke, d) ==
    Elem("path", fill, stroke, NoAttr, NoAttr, NoAttr, NoAttr, NoAttr, NoAttr,
         NoAttr, NoAttr, NoAttr, d)

----------------------------------------------------------------------------
(* getShapeColorType, src/App.tsx:931-962 *)

\* parseRGB: the first three digit groups, or <<>> for null
parseRGB(c) ==
    IF Len(c.nums) < 3 THEN <<>>
    ELSE <<[r |-> c.nums[1], g |-> c.nums[2], b |-> c.nums[3]]>>

\* the three colour tests of one loop iteration; "" when none returns
rgbClass(rgb) ==
    IF (rgb.r = 255 /\ rgb.g = 0 /\ rgb.b = 255)
       \/ (rgb.r = 236 /\ rgb.g = 0 /\ rgb.b = 140) THEN "magenta"
    ELSE IF (rgb.r = 0 /\ rgb.g = 255 /\ rgb.b = 255)
       \/ (rgb.r = 0 /\ rgb.g = 174 /\ rgb.b = 239) THEN "cyan"
    ELSE IF (rgb.r = 255 /\ rgb.g = 0 /\ rgb.b = 0)
       \/ (rgb.r = 237 /\ rgb.g = 28 /\ rgb.b = 36) THEN "red"
    ELSE ""

\* the loop `for (const c of candidates)` from index i on
RECURSIVE colorLoop(_, _)
colorLoop(candidates, i) ==
    IF i > Len(candidates) THEN "unknown"
    ELSE LET c == candidates[i] IN
         IF c.kw = "" \/ c.kw = "none" \/ c.kw = "transparent"
         THEN colorLoop(candidates, i + 1)
         ELSE LET rgb == parseRGB(c) IN
              IF rgb = <<>> THEN colorLoop(candidates, i + 1)
              ELSE IF rgbClass(rgb[1]) # "" THEN rgbClass(rgb[1])
              ELSE colorLoop(candidates, i + 1)

\* a classifier that looks at the stroke before the fill
getShapeColorType_strokeFirst(e) == colorLoop(<<e.stroke, e.fill>>, 1)

getShapeColorType(e) == colorLoop(<<e.fill, e.stroke>>, 1)

----------------------------------------------------------------------------
(* shapeToPath, src/App.tsx:965-1007.  A path string is the sequence of its *)
(* segments; the empty string is the empty sequence.                        *)

Null == <<>>
Some(v) == <<v>>

\* a rounded rectangle with both radii clamped to half of the shorter side
roundedRectPath_shorterSide(x, y, width, height, rx, ry) ==
    LET half == RHalf(RMin(width, height))
        maxRx == RMin(rx, half)
        maxRy == RMin(ry, half)
        x2 == RAdd(x, width)
        y2 == RAdd(y, height)
    IN  << Seg("M", <<RAdd(x, maxRx), y>>),
           Seg("L", <<RSub(x2, maxRx), y>>),
           Seg("Q", <<x2, y, x2, RAdd(y, maxRy)>>),
           Seg("L", <<x2, RSub(y2, maxRy)>>),
           Seg("Q", <<x2, y2, RSub(x2, maxRx), y2>>),
           Seg("L", <<RAdd(x, maxRx), y2>>),
           Seg("Q", <<x, y2, x, RSub(y2, maxRy)>>),
           Seg("L", <<x, RAdd(y, maxRy)>>),
           Seg("Q", <<x, y, RAdd(x, maxRx), y>>),
           Seg("Z", <<>>) >>

\* a rounded rectangle whose radii are not clamped at all
roundedRectPath_unclamped(x, y, width, height, rx, ry) ==
    LET x2 == RAdd(x, width)
        y2 == RAdd(y, height)
    IN  << Seg("M", <<RAdd(x, rx), y>>),
           Seg("L", <<RSub(x2, rx), y>>),
           Seg("Q", <<x2, y, x2, RAdd(y, ry)>>),
           Seg("L", <<x2, RSub(y2, ry)>>),
           Seg("Q", <<x2, y2, RSub(x2, rx), y2>>),
           Seg("L", <<RAdd(x, rx), y2>>),
           Seg("Q", <<x, y2, x, RSub(y2, ry)>>),
           Seg("L", <<x, RAdd(y, ry)>>),
           Seg("Q", <<x, y, RAdd(x, rx), y>>),
           Seg("Z", <<>>) >>

\* the rounded rectangle of lines 982-984
roundedRectPath(x, y, width, height, rx, ry) ==
    LET maxRx == RMin(rx, RHalf(width))
        maxRy == RMin(ry, RHalf(height))
        x2 == RAdd(x, width)
        y2 == RAdd(y, height)
    IN  << Seg("M", <<RAdd(x, maxRx), y>>),
           Seg("L", <<RSub(x2, maxRx), y>>),
           Seg("Q", <<x2, y, x2, RAdd(y, maxRy)>>),
           Seg("L", <<x2, RSub(y2, maxRy)>>),
           Seg("Q", <<x2, y2, RSub(x2, maxRx), y2>>),
           Seg("L", <<RAdd(x, maxRx), y2>>),
           Seg("Q", <<x, y2, x, RSub(y2, maxRy)>>),
           Seg("L", <<x, RAdd(y, maxRy)>>),
           Seg("Q", <<x, y, RAdd(x, maxRx), y>>),
           Seg("Z", <<>>) >>

\* a simple rectangle whose last corner is forgotten
simpleRectPath_open(x, y, width, height) ==
    << Seg("M", <<x, y>>),
       Seg("L", <<RAdd(x, width), y>>),
       Seg("L", <<RAdd(x, width), RAdd(y, height)>>),
       Seg("Z", <<>>) >>

\* the simple rectangle of line 987
simpleRectPath(x, y, width, height) ==
    << Seg("M", <<x, y>>),
       Seg("L", <<RAdd(x, width), y>>),
       Seg("L", <<RAdd(x, width), RAdd(y, height)>>),
       Seg("L", <<x, RAdd(y, height)>>),
       Seg("Z", <<>>) >>

shapeToPath(e) ==
    IF e.tag = "path" THEN e.d
    ELSE IF e.tag = "rect" THEN
        LET x == parseFloatOr0(e.x)
            y == parseFloatOr0(e.y)
            width == parseFloatOr0(e.width)
            height == parseFloatOr0(e.height)
            rx == parseFloatOr0(e.rx)
            \* getAttribute('ry') || getAttribute('rx') || '0'
            ry == IF e.ry # NoAttr THEN parseFloatOr0(e.ry) ELSE parseFloatOr0(e.rx)
        IN  IF RGt(rx, R(0)) \/ RGt(ry, R(0))
            THEN roundedRectPath(x, y, width, height, rx, ry)
            ELSE simpleRectPath(x, y, width, height)
    ELSE IF e.tag = "circle" THEN
        LET cx == parseFloatOr0(e.cx)
            cy == parseFloatOr0(e.cy)
            r == parseFloatOr0(e.r)
        IN  << Seg("M", <<cx, RSub(cy, r)>>),
               Seg("A", <<r, r, R(0), R(0), R(1), RAdd(cx, r), cy>>),
               Seg("A", <<r, r, R(0), R(0), R(1), cx, RAdd(cy, r)>>),
               Seg("A", <<r, r, R(0), R(0), R(1), RSub(cx, r), cy>>),
               Seg("A", <<r, r, R(0), R(0), R(1), cx, RSub(cy, r)>>),
               Seg("Z", <<>>) >>
    ELSE IF e.tag = "ellipse" THEN
        LET cx == parseFloatOr0(e.cx)
            cy == parseFloatOr0(e.cy)
            rx == parseFloatOr0(e.rx)
            ry == parseFloatOr0(e.ry)
        IN  << Seg("M", <<cx, RSub(cy, ry)>>),
               Seg("A", <<rx, ry, R(0), R(0), R(1), RAdd(cx, rx), cy>>),
               Seg("A", <<rx, ry, R(0), R(0), R(1), cx, RAdd(cy, ry)>>),
               Seg("A", <<rx, ry, R(0), R(0), R(1), RSub(cx, rx), cy>>),
               Seg("A", <<rx, ry, R(0), R(0), R(1), cx, RSub(cy, ry)>>),
               Seg("Z", <<>>) >>
    ELSE <<>>

----------------------------------------------------------------------------
(* SVG path semantics: the on-curve points of a path string and their box.  *)
(* Commands used by the code: M L Q A (absolute), h v (relative), Z.        *)

Pt(x, y) == [x |-> x, y |-> y]

\* the end point of segment s drawn from the current point cur of a subpath
\* that started at start
segEnd(s, cur, start) ==
    IF s.cmd = "M" \/ s.cmd = "L" THEN Pt(s.args[1], s.args[2])
    ELSE IF s.cmd = "Q" THEN Pt(s.args[3], s.args[4])
    ELSE IF s.cmd = "A" THEN Pt(s.args[6], s.args[7])
    ELSE IF s.cmd = "h" THEN Pt(RAdd(cur.x, s.args[1]), cur.y)
    ELSE IF s.cmd = "v" THEN Pt(cur.x, RAdd(cur.y, s.args[1]))
    ELSE start

RECURSIVE pathPointsFrom(_, _, _, _)
pathPointsFrom(path, i, cur, start) ==
    IF i > Len(path) THEN <<>>
    ELSE LET p == segEnd(path[i], cur, start)
             st == IF path[i].cmd = "M" THEN p ELSE start
         IN  <<p>> \o pathPointsFrom(path, i + 1, p, st)

PathPoints(path) == pathPointsFrom(path, 1, Pt(R(0), R(0)), Pt(R(0), R(0)))

RECURSIVE foldMin(_, _, _)
foldMin(vals, i, acc) ==
    IF i > Len(vals) THEN acc ELSE foldMin(vals, i + 1, RMin(acc, vals[i]))
RECURSIVE foldMax(_, _, _)
foldMax(vals, i, acc) ==
    IF i > Len(vals) THEN acc ELSE foldMax(vals, i + 1, RMax(acc, vals[i]))

BBox(x, y, w, h) == [x |-> x, y |-> y, width |-> w, height |-> h]

\* the bounding box of a non-empty sequence of points
PointsBBox(pts) ==
    LET xs == [i \in 1..Len(pts) |-> pts[i].x]
        ys == [i \in 1..Len(pts) |-> pts[i].y]
        x0 == foldMin(xs, 1, xs[1])
        y0 == foldMin(ys, 1, ys[1])
    IN  BBox(x0, y0, RSub(foldMax(xs, 1, xs[1]), x0), RSub(foldMax(ys, 1, ys[1]), y0))

\* SVGGraphicsElement.getBBox() as called at src/App.tsx:1053: the geometry
\* of the element itself; a path without geometry has the zero box.  Path
\* elements of the model are polygons, whose box is that of their vertices.
getBBox(e) ==
    IF e.tag = "rect" THEN
        BBox(parseFloatOr0(e.x), parseFloatOr0(e.y),
             parseFloatOr0(e.width), parseFloatOr0(e.height))
    ELSE IF e.tag = "circle" THEN
        LET r == parseFloatOr0(e.r) IN
        BBox(RSub(parseFloatOr0(e.cx), r), RSub(parseFloatOr0(e.cy), r),
             RMul(R(2), r), RMul(R(2), r))
    ELSE IF e.tag = "ellipse" THEN
        LET rx == parseFloatOr0(e.rx)
            ry == parseFloatOr0(e.ry) IN
        BBox(RSub(parseFloatOr0(e.cx), rx), RSub(parseFloatOr0(e.cy), ry),
             RMul(R(2), rx), RMul(R(2), ry))
    ELSE IF e.d = <<>> THEN BBox(R(0), R(0), R(0), R(0))
    ELSE PointsBBox(PathPoints(e.d))

----------------------------------------------------------------------------
(* processSingleTemplate, src/App.tsx:1010-1109.  A file is                 *)
(* [name, readable, hasSvg, shapes]: whether the FileReader delivers it,    *)
(* whether its content holds an <svg> element, and the elements             *)
(* querySelectorAll('path, rect, circle, ellipse') finds, in document order.*)
(* Elements are referred to by their index in that list.                    *)

File(name, readable, hasSvg, shapes) ==
    [name |-> name, readable |-> readable, hasSvg |-> hasSvg, shapes |-> shapes]

ErrInvalidSvg    == "Invalid SVG"
ErrNoMagenta     == "Chyba sablony: Nepodarilo sa najst Magentovy tvar"
ErrNoPath        == "Chyba: Nepodarilo sa konvertovat tvar na cestu"
ErrUnreadable    == "Nepodarilo sa nacitat subor"

\* the loop shapeElements.forEach(...) of lines 1039-1045 from index i on;
\* acc = [caseElement, cameraElements, safeZoneElements]
\* a classifier that keeps the first magenta shape instead of the last
RECURSIVE classifyFrom_firstWins(_, _, _)
classifyFrom_firstWins(shapes, i, acc) ==
    IF i > Len(shapes) THEN acc
    ELSE LET colorType == getShapeColorType(shapes[i]) IN
         classifyFrom_firstWins(shapes, i + 1,
            IF colorType = "magenta"
            THEN (IF acc.caseElement = Null
                  THEN [acc EXCEPT !.caseElement = Some(i)] ELSE acc)
            ELSE IF colorType = "cyan"
                 THEN [acc EXCEPT !.cameraElements = Append(@, i)]
            ELSE IF colorType = "red"
                 THEN [acc EXCEPT !.safeZoneElements = Append(@, i)]
            ELSE acc)

RECURSIVE classifyFrom(_, _, _)
classifyFrom(shapes, i, acc) ==
    IF i > Len(shapes) THEN acc
    ELSE LET colorType == getShapeColorType(shapes[i]) IN
         classifyFrom(shapes, i + 1,
            IF colorType = "magenta" THEN [acc EXCEPT !.caseElement = Some(i)]
            ELSE IF colorType = "cyan"
                 THEN [acc EXCEPT !.cameraElements = Append(@, i)]
            ELSE IF colorType = "red"
                 THEN [acc EXCEPT !.safeZoneElements = Append(@, i)]
            ELSE acc)

classifyShapes(shapes) ==
    classifyFrom(shapes, 1,
        [caseElement |-> Null, cameraElements |-> <<>>, safeZoneElements |-> <<>>])

\* a path union whose emptiness test is inverted
RECURSIVE combinePaths_inverted(_, _, _)
combinePaths_inverted(shapes, idx, i) ==
    IF i > Len(idx) THEN <<>>
    ELSE LET path == shapeToPath(shapes[idx[i]]) IN
         (IF path = <<>> THEN path ELSE <<>>) \o combinePaths_inverted(shapes, idx, i + 1)

\* the loops of lines 1064-1069 and 1074-1079: the paths of the elements
\* idx[i..] appended, each non-empty one after a separating space
RECURSIVE combinePaths(_, _, _)
combinePaths(shapes, idx, i) ==
    IF i > Len(idx) THEN <<>>
    ELSE LET path == shapeToPath(shapes[idx[i]]) IN
         (IF path # <<>> THEN path ELSE <<>>) \o combinePaths(shapes, idx, i + 1)

\* a generated safe zone inset by 5% of each axis' own extent
insetSafeZone_perAxis(bbox) ==
    LET insetX == RMul(bbox.width, Frac(5, 100))
        insetY == RMul(bbox.height, Frac(5, 100))
        w == RSub(bbox.width, RMul(R(2), insetX))
        h == RSub(bbox.height, RMul(R(2), insetY))
    IN  << Seg("M", <<RAdd(bbox.x, insetX), RAdd(bbox.y, insetY)>>),
           Seg("h", <<w>>),
           Seg("v", <<h>>),
           Seg("h", <<RNeg(w)>>),
           Seg("Z", <<>>) >>

\* the generated safe zone of lines 1082-1083
\*   M x+inset y+inset h W v H h -W Z,  W = width - 2*inset, H = height - 2*inset
\* (W >= 0 for every bounding box, so "-${W}" is the number -W)
insetSafeZone(bbox) ==
    LET inset == RMul(bbox.width, Frac(5, 100))
        w == RSub(bbox.width, RMul(R(2), inset))
        h == RSub(bbox.height, RMul(R(2), inset))
    IN  << Seg("M", <<RAdd(bbox.x, inset), RAdd(bbox.y, inset)>>),
           Seg("h", <<w>>),
           Seg("v", <<h>>),
           Seg("h", <<RNeg(w)>>),
           Seg("Z", <<>>) >>

\* JavaScript's a / b for a >= 0: NaN is kept as 0/0 and Infinity as 1/0
jsDiv(a, b) ==
    IF b.n # 0 THEN RDiv(a, b)
    ELSE IF a.n = 0 THEN [n |-> 0, d |-> 0] ELSE [n |-> 1, d |-> 0]

\* String.replace(part, ''): a name is the sequence of its parts, and the
\* first occurrence of part is removed
RECURSIVE removeFirst(_, _)
removeFirst(parts, part) ==
    IF parts = <<>> THEN <<>>
    ELSE IF Head(parts) = part THEN Tail(parts)
    ELSE <<Head(parts)>> \o removeFirst(Tail(parts), part)

\* `custom-${Date.now()}-${random}`: the n-th identifier generated
TemplateId(n) == "custom-" \o ToString(n)

Rejected(cls, error) ==
    [status |-> "rejected", error |-> error, model |-> Null,
     caseElement |-> cls.caseElement, cameraElements |-> cls.cameraElements,
     safeZoneElements |-> cls.safeZoneElements]

\* a builder that never notices an outline without path
outlineMissing_never(casePath) == FALSE

\* the test `!casePath` of line 1057
outlineMissing(casePath) == casePath = <<>>

NoClass == [caseElement |-> Null, cameraElements |-> <<>>, safeZoneElements |-> <<>>]

\* lines 1062-1101: the cutout and safe-zone paths and the new model, for
\* the classified shapes cls, the box bbox and the path casePath of the outline
buildTemplate(file, id, cls, bbox, casePath) ==
    IF outlineMissing(casePath) THEN Rejected(cls, ErrNoPath)
    ELSE [status |-> "resolved", error |-> "",
          model |-> Some(
            [id |-> id, name |-> removeFirst(file.name, ".svg"),
             brand |-> "Vlastna sablona",
             width |-> bbox.width, height |-> bbox.height,
             minX |-> bbox.x, minY |-> bbox.y,
             screenRatio |-> jsDiv(bbox.width, bbox.height),
             svgPath |-> casePath,
             cameraPath |-> combinePaths(file.shapes, cls.cameraElements, 1),
             safeZonePath |->
                IF Len(cls.safeZoneElements) > 0
                THEN combinePaths(file.shapes, cls.safeZoneElements, 1)
                ELSE insetSafeZone(bbox)]),
          caseElement |-> cls.caseElement, cameraElements |-> cls.cameraElements,
          safeZoneElements |-> cls.safeZoneElements]

\* lines 1047-1060: the outline must exist; its box and its path
processClassified(file, id, cls) ==
    IF cls.caseElement = Null THEN Rejected(cls, ErrNoMagenta)
    ELSE buildTemplate(file, id, cls,
                       getBBox(file.shapes[cls.caseElement[1]]),
                       shapeToPath(file.shapes[cls.caseElement[1]]))

\* the outcome of the promise and the locals of the run; id is the fresh
\* `custom-${Date.now()}-${random}` identifier
processSingleTemplate(file, id) ==
    IF ~file.readable THEN Rejected(NoClass, ErrUnreadable)
    ELSE IF ~file.hasSvg THEN Rejected(NoClass, ErrInvalidSvg)
    ELSE processClassified(file, id, classifyShapes(file.shapes))

----------------------------------------------------------------------------
(* Inputs: colours, elements and template files *)

Magenta    == Rgb(255, 0, 255)
MagentaAlt == Rgb(236, 0, 140)
Cyan       == Rgb(0, 255, 255)
CyanAlt    == Rgb(0, 174, 239)
Red        == Rgb(255, 0, 0)
RedAlt     == Rgb(237, 28, 36)
Black      == Rgb(0, 0, 0)
\* one unit away from magenta
NearMagenta == Rgb(255, 0, 254)

Colors == {Magenta, MagentaAlt, Cyan, CyanAlt, Red, RedAlt, Black, NearMagenta,
           ColNone, ColTransparent, ColEmpty, ColUrl, ColRgbaMagenta}

Triangle == << Seg("M", <<R(20), R(10)>>), Seg("L", <<R(80), R(10)>>),
               Seg("L", <<R(50), R(110)>>), Seg("Z", <<>>) >>

\* the shapes template documents are made of
sCaseRect   == Rect(Magenta, ColNone, Attr(0), Attr(0), Attr(100), Attr(200), NoAttr, NoAttr)
sCaseStroke == Rect(ColNone, MagentaAlt, Attr(10), Attr(20), Attr(60), Attr(120), Attr(10), NoAttr)
sCasePoly   == PathEl(Magenta, ColNone, Triangle)
sCaseEmpty  == PathEl(Black, Magenta, <<>>)
sCaseZero   == Rect(Magenta, ColNone, Attr(0), Attr(0), Attr(0), Attr(200), NoAttr, NoAttr)
sCamCircle  == Circle(Cyan, ColNone, Attr(80), Attr(40), Attr(10))
sCamZero    == Circle(ColNone, CyanAlt, Attr(30), Attr(30), Attr(0))
sSafeRect   == Rect(ColNone, Red, Attr(5), Attr(5), Attr(90), Attr(190), NoAttr, NoAttr)
sSafeEmpty  == PathEl(RedAlt, ColNone, <<>>)
sSafeZero   == Ellipse(Red, ColNone, Attr(50), Attr(50), Attr(0), Attr(20))
sOther      == Rect(Black, ColNone, Attr(0), Attr(0), Attr(10), Attr(10), NoAttr, NoAttr)

ShapePool == {sCaseRect, sCaseStroke, sCasePoly, sCaseEmpty, sCaseZero,
              sCamCircle, sCamZero, sSafeRect, sSafeEmpty, sSafeZero, sOther}

RECURSIVE SeqsUpTo(_, _)
SeqsUpTo(S, n) ==
    IF n = 0 THEN {<<>>}
    ELSE LET shorter == SeqsUpTo(S, n - 1) IN
         shorter \cup {Append(q, v) : q \in {t \in shorter : Len(t) = n - 1}, v \in S}

TemplateFiles ==
    {File(<<"case", ".svg">>, TRUE, TRUE, sh) : sh \in SeqsUpTo(ShapePool, MaxShapes)}
    \cup {File(<<"broken", ".svg">>, FALSE, TRUE, <<>>),
          File(<<"notes", ".txt">>, TRUE, FALSE, <<>>)}

\* the elements shapeToPath and getShapeColorType are tried on
RectAttrs == {NoAttr, Attr(0), Attr(10), Attr(30), Attr(80)}
ShapeInputs ==
    {Rect(Magenta, ColNone, Attr(x), Attr(y), Attr(w), Attr(h), rx, ry) :
        x \in {-5, 10}, y \in {0, 20}, w \in {-10, 0, 1, 60, 100},
        h \in {0, 1, 40, 200}, rx \in RectAttrs, ry \in RectAttrs}
    \cup {Circle(Cyan, ColNone, Attr(cx), Attr(cy), r) :
        cx \in {0, 80}, cy \in {-5, 40}, r \in {NoAttr, Attr(-3), Attr(0), Attr(10)}}
    \cup {Ellipse(Red, ColNone, Attr(cx), Attr(cy), Attr(rx), Attr(ry)) :
        cx \in {0, 80}, cy \in {40}, rx \in {-3, 0, 10}, ry \in {0, 25}}
    \cup {PathEl(fill, stroke, d) :
        fill \in Colors, stroke \in Colors, d \in {<<>>, Triangle}}

----------------------------------------------------------------------------
(* Initial values of the four parts of the state *)

PendingOut == [status |-> "pending", error |-> "", model |-> Null,
               caseElement |-> Null, cameraElements |-> <<>>,
               safeZoneElements |-> <<>>]
NoFile == File(<<>>, FALSE, FALSE, <<>>)
NoElem == PathEl(ColEmpty, ColEmpty, <<>>)

IdleTmpl  == tDoc = NoFile /\ tOut = [PendingOut EXCEPT !.status = "idle"]
IdleShape == el = NoElem /\ elPath = [done |-> TRUE, path |-> <<>>] /\ elColor = "idle"

----------------------------------------------------------------------------
(* The 2D canvas context used by generatePrintFile: the current transform   *)
(* matrix [a b c d e f] maps (x, y) to (a x + c y + e, b x + d y + f); a    *)
(* clip is kept as the list of clipping paths, each with the matrix that    *)
(* was current when ctx.clip was called; save/restore stack both.           *)

Mat(a, b, c, d, e, f) == [a |-> a, b |-> b, c |-> c, d |-> d, e |-> e, f |-> f]
Identity == Mat(R(1), R(0), R(0), R(1), R(0), R(0))

MatApply(m, p) ==
    Pt(RAdd(RAdd(RMul(m.a, p.x), RMul(m.c, p.y)), m.e),
       RAdd(RAdd(RMul(m.b, p.x), RMul(m.d, p.y)), m.f))

\* rotations of the model are whole multiples of 90 degrees, where
\* Math.cos / Math.sin of rotation * PI / 180 are 0, 1 or -1
Turn(deg) == ((deg % 360) + 360) % 360
cosDeg(deg) == IF Turn(deg) = 0 THEN R(1) ELSE IF Turn(deg) = 180 THEN R(-1) ELSE R(0)
sinDeg(deg) == IF Turn(deg) = 90 THEN R(1) ELSE IF Turn(deg) = 270 THEN R(-1) ELSE R(0)

NewContext ==
    [ctm |-> Identity, clip |-> <<>>, stack |-> <<>>, ops |-> <<>>,
     font |-> [size |-> R(10), family |-> "sans-serif", weight |-> 400],
     fillStyle |-> "#000000", textAlign |-> "start", textBaseline |-> "alphabetic"]

ctxTranslate(ctx, tx, ty) ==
    LET m == ctx.ctm IN
    [ctx EXCEPT !.ctm = [m EXCEPT !.e = RAdd(RAdd(RMul(m.a, tx), RMul(m.c, ty)), m.e),
                                  !.f = RAdd(RAdd(RMul(m.b, tx), RMul(m.d, ty)), m.f)]]

ctxScale(ctx, sx, sy) ==
    LET m == ctx.ctm IN
    [ctx EXCEPT !.ctm = [m EXCEPT !.a = RMul(m.a, sx), !.b = RMul(m.b, sx),
                                  !.c = RMul(m.c, sy), !.d = RMul(m.d, sy)]]

\* ctx.rotate((deg * Math.PI) / 180), clockwise for positive angles
ctxRotate(ctx, deg) ==
    LET m == ctx.ctm
        co == cosDeg(deg)
        si == sinDeg(deg) IN
    [ctx EXCEPT !.ctm = [m EXCEPT !.a = RAdd(RMul(m.a, co), RMul(m.c, si)),
                                  !.b = RAdd(RMul(m.b, co), RMul(m.d, si)),
                                  !.c = RSub(RMul(m.c, co), RMul(m.a, si)),
                                  !.d = RSub(RMul(m.d, co), RMul(m.b, si))]]

ctxSave(ctx) ==
    [ctx EXCEPT !.stack = Append(@, [ctm |-> ctx.ctm, clip |-> ctx.clip,
                                     font |-> ctx.font, fillStyle |-> ctx.fillStyle,
                                     textAlign |-> ctx.textAlign,
                                     textBaseline |-> ctx.textBaseline])]

ctxRestore(ctx) ==
    IF ctx.stack = <<>> THEN ctx
    ELSE LET top == ctx.stack[Len(ctx.stack)] IN
         [ctx EXCEPT !.ctm = top.ctm, !.clip = top.clip, !.font = top.font,
                     !.fillStyle = top.fillStyle, !.textAlign = top.textAlign,
                     !.textBaseline = top.textBaseline,
                     !.stack = SubSeq(ctx.stack, 1, Len(ctx.stack) - 1)]

ctxClip(ctx, path, role) ==
    [ctx EXCEPT !.clip = Append(@, [path |-> path, role |-> role, ctm |-> ctx.ctm])]

DrawOp(op, ctx, src, dx, dy, dw, dh, text) ==
    [op |-> op, ctm |-> ctx.ctm, clip |-> ctx.clip, src |-> src,
     dx |-> dx, dy |-> dy, dw |-> dw, dh |-> dh, text |-> text,
     font |-> ctx.font, fillStyle |-> ctx.fillStyle,
     textAlign |-> ctx.textAlign, textBaseline |-> ctx.textBaseline]

\* ctx.drawImage(img, dx, dy): the image at its natural size
ctxDrawImage(ctx, img, dx, dy) ==
    [ctx EXCEPT !.ops = Append(@, DrawOp("drawImage", ctx, img.src, dx, dy,
                                         img.width, img.height, ""))]

ctxFillText(ctx, text, x, y) ==
    [ctx EXCEPT !.ops = Append(@, DrawOp("fillText", ctx, "", x, y, R(0), R(0), text))]

----------------------------------------------------------------------------
(* generatePrintFile, src/App.tsx:1170-1244 *)

\* the images a design can refer to: what new Image() yields for the source
\* when the compositor loads it.  "big.jpg" is the data URL handleFileUpload
\* makes of the 3000 x 2001 picture "big"; "fragile" was decoded when it was
\* uploaded and is not decoded again.
ImageStore ==
    { [src |-> "photo", decodes |-> TRUE, width |-> R(300), height |-> R(500)],
      [src |-> "wide", decodes |-> TRUE, width |-> R(640), height |-> R(501)],
      [src |-> "big.jpg", decodes |-> TRUE, width |-> R(1500), height |-> R(1000)],
      [src |-> "corrupt", decodes |-> FALSE, width |-> R(0), height |-> R(0)],
      [src |-> "fragile", decodes |-> FALSE, width |-> R(0), height |-> R(0)],
      \* no image: an empty src fires the error event
      [src |-> "", decodes |-> FALSE, width |-> R(0), height |-> R(0)] }
loadImage(src) == CHOOSE img \in ImageStore : img.src = src

\* Math.floor of a non-negative rational (a canvas size is an integer)
RFloor(p) == R(p.n \div p.d)

scaleFactor == Frac(25, 10)

\* the loop currentDesign.textElements.forEach(...) of lines 1220-1234
RECURSIVE drawTexts(_, _, _, _, _)
drawTexts(ctx, textElements, i, cx, cy) ==
    IF i > Len(textElements) THEN ctx
    ELSE LET textEl == textElements[i]
             textX == RAdd(cx, textEl.x)
             textY == RAdd(cy, textEl.y)
             fontSize == RMul(textEl.fontSize, textEl.scale)
             c1 == ctxSave(ctx)
             c2 == ctxTranslate(c1, textX, textY)
             c3 == ctxRotate(c2, textEl.rotation)
             c4 == [c3 EXCEPT !.font = [size |-> fontSize, family |-> textEl.fontFamily,
                                        weight |-> 600],
                              !.fillStyle = IF textEl.color # "" THEN textEl.color
                                            ELSE "#1e293b",
                              !.textAlign = "center",
                              !.textBaseline = "middle"]
             c5 == ctxFillText(c4, textEl.text, R(0), R(0))
             c6 == ctxRestore(c5)
         IN  drawTexts(c6, textElements, i + 1, cx, cy)

\* a centre computed as if the bounding box started at the origin
caseCenter_noOrigin(model) == Pt(RHalf(model.width), RHalf(model.height))

\* the centre of the case bounding box, lines 1199-1200
caseCenter(model) ==
    Pt(RAdd(model.minX, RHalf(model.width)), RAdd(model.minY, RHalf(model.height)))

\* the text layers clipped to the safe zone instead of the outline
printOnLoad_clipSafeZone(model, currentDesign, img) ==
    LET c1 == ctxScale(NewContext, scaleFactor, scaleFactor)
        c2 == ctxTranslate(c1, RNeg(model.minX), RNeg(model.minY))
        c3 == ctxClip(ctxSave(c2), model.svgPath, "svgPath")
        cx == caseCenter(model).x
        cy == caseCenter(model).y
        c4 == ctxTranslate(c3, cx, cy)
        c5 == ctxTranslate(c4, currentDesign.x, currentDesign.y)
        c6 == ctxRotate(c5, currentDesign.rotation)
        c7 == ctxScale(c6, currentDesign.scale, currentDesign.scale)
        c8 == ctxDrawImage(c7, img, RNeg(RHalf(img.width)), RNeg(RHalf(img.height)))
        c9 == ctxRestore(c8)
    IN  IF Len(currentDesign.textElements) > 0
        THEN ctxRestore(drawTexts(ctxClip(ctxSave(c9), model.safeZonePath, "safeZonePath"),
                                  currentDesign.textElements, 1, cx, cy))
        ELSE c9

\* the body of img.onload, lines 1185-1240: the context after the last call
printOnLoad(model, currentDesign, img) ==
    LET c1 == ctxScale(NewContext, scaleFactor, scaleFactor)
        offsetX == model.minX
        offsetY == model.minY
        c2 == ctxTranslate(c1, RNeg(offsetX), RNeg(offsetY))
        c3 == ctxClip(ctxSave(c2), model.svgPath, "svgPath")
        cx == caseCenter(model).x
        cy == caseCenter(model).y
        c4 == ctxTranslate(c3, cx, cy)
        c5 == ctxTranslate(c4, currentDesign.x, currentDesign.y)
        c6 == ctxRotate(c5, currentDesign.rotation)
        c7 == ctxScale(c6, currentDesign.scale, currentDesign.scale)
        c8 == ctxDrawImage(c7, img, RNeg(RHalf(img.width)), RNeg(RHalf(img.height)))
        c9 == ctxRestore(c8)
    IN  IF Len(currentDesign.textElements) > 0
        THEN ctxRestore(drawTexts(ctxClip(ctxSave(c9), model.svgPath, "svgPath"),
                                  currentDesign.textElements, 1, cx, cy))
        ELSE c9

\* the promise: resolved with the raster (its size and the draw operations
\* that produced it) or rejected by img.onerror
generatePrintFile(model, currentDesign) ==
    LET canvas == [width |-> RFloor(RMul(model.width, scaleFactor)),
                   height |-> RFloor(RMul(model.height, scaleFactor))]
        \* img.src = currentDesign.imageSrc || ''
        img == loadImage(currentDesign.imageSrc)
    IN  IF img.decodes
        THEN [status |-> "resolved", canvas |-> canvas,
              ops |-> printOnLoad(model, currentDesign, img).ops]
        ELSE [status |-> "rejected", canvas |-> canvas, ops |-> <<>>]

\* the designs and models generatePrintFile is tried on
TextEl(id, text, x, y, rotation, scale) ==
    [id |-> id, text |-> text, fontFamily |-> "Roboto", x |-> x, y |-> y,
     scale |-> scale, rotation |-> rotation, fontSize |-> R(24), color |-> "#1e293b"]

TextPool == { TextEl("text-1", "Ann", R(0), R(0), 0, R(1)),
              TextEl("text-2", "Bob", R(-12), R(30), 90, Frac(3, 2)),
              TextEl("text-3", "Cy", R(7), R(-40), 270, R(2)) }

\* a DesignState; imgWidth and imgHeight are absent (Null) until an image is
\* loaded
Design(scale, x, y, rotation, imageSrc, texts) ==
    [scale |-> scale, x |-> x, y |-> y, rotation |-> rotation,
     imageSrc |-> imageSrc, imgWidth |-> Null, imgHeight |-> Null,
     textElements |-> texts]

INITIAL_DESIGN == Design(R(1), R(0), R(0), 0, "", <<>>)

\* the pictures a user picks in the file input: the data URL the FileReader
\* delivers, whether new Image() decodes it, and its natural size
UserImage(src, loads, width, height) ==
    [src |-> src, loads |-> loads, width |-> R(width), height |-> R(height)]

imgPhoto   == UserImage("photo", TRUE, 300, 500)
imgWide    == UserImage("wide", TRUE, 640, 501)
imgBig     == UserImage("big", TRUE, 3000, 2001)
imgSmall   == UserImage("small", TRUE, 299, 500)
imgFragile == UserImage("fragile", TRUE, 400, 600)
imgCorrupt == UserImage("corrupt", FALSE, 0, 0)

\* the first page of a PDF of width x height points, rendered at
\* getViewport({ scale: 2.0 }) on a canvas (lines 706-735): the canvas size is
\* the truncated viewport size, and the page is the JPEG of the canvas
renderPdfPage(src, width, height) ==
    [src |-> src \o "#1", loads |-> TRUE,
     width |-> RFloor(RMul(R(2), width)), height |-> RFloor(RMul(R(2), height))]

pdfSmall == renderPdfPage("small.pdf", R(150), Frac(499, 2))

\* lines 826-856 of handleFileUpload: a picture with a side above 2000 is
\* redrawn with its longer side at maxDim = 1500; the new source is the data
\* URL of the canvas, whose size is the truncated one, while finalWidth and
\* finalHeight keep the computed numbers
optimizeImage(img) ==
    IF RGt(img.width, R(2000)) \/ RGt(img.height, R(2000))
    THEN LET maxDim == R(1500)
             landscape == RGt(img.width, img.height)
             width == IF landscape THEN maxDim
                      ELSE RMul(img.width, RDiv(maxDim, img.height))
             height == IF landscape THEN RMul(img.height, RDiv(maxDim, img.width))
                       ELSE maxDim
         IN  [finalSrc |-> img.src \o ".jpg", finalWidth |-> width,
              finalHeight |-> height,
              canvas |-> [width |-> RFloor(width), height |-> RFloor(height)]]
    ELSE [finalSrc |-> img.src, finalWidth |-> img.width, finalHeight |-> img.height,
          canvas |-> [width |-> img.width, height |-> img.height]]

\* the design with the picture as handleFileUpload stores it (lines 862-868)
withImage(d, img) ==
    [d EXCEPT !.imageSrc = optimizeImage(img).finalSrc,
              !.imgWidth = Some(optimizeImage(img).finalWidth),
              !.imgHeight = Some(optimizeImage(img).finalHeight)]

PrintDesigns ==
    { withImage(Design(sc, R(x), R(y), rot, "", texts), img) :
        sc \in {Frac(1, 2), R(1), R(3)}, x \in {-30, 0, 25}, y \in {0, 40},
        rot \in {-90, 0, 90, 180}, img \in {imgPhoto, imgBig, imgFragile},
        texts \in SeqsUpTo(TextPool, MaxTexts) }

----------------------------------------------------------------------------
(* The layers of the on-screen editor, src/components/PhoneEditor.tsx: the   *)
(* <image> of lines 449-458 and the text groups of lines 495-526.  The <svg> *)
(* has viewBox = minX minY width height at width x height, so its user units *)
(* are the template's; a transform list applies left to right, as the calls  *)
(* on a canvas context do.                                                   *)

\* lines 352-353
editorCenter(model) ==
    Pt(RAdd(model.minX, RHalf(model.width)), RAdd(model.minY, RHalf(model.height)))

\* design.imgWidth || 300 and design.imgHeight || 500, lines 356-357
editorImgW(d) ==
    IF d.imgWidth = Null \/ d.imgWidth = Some(R(0)) THEN R(300)
    ELSE d.imgWidth[1]
editorImgH(d) ==
    IF d.imgHeight = Null \/ d.imgHeight = Some(R(0)) THEN R(500)
    ELSE d.imgHeight[1]

\* the transform list with the rotation ahead of the offset
editorImageTransform_rotateFirst(model, d) ==
    LET c  == editorCenter(model)
        t1 == ctxTranslate(NewContext, c.x, c.y)
        t2 == ctxRotate(t1, d.rotation)
        t3 == ctxTranslate(t2, d.x, d.y)
        t4 == ctxScale(t3, d.scale, d.scale)
        t5 == ctxTranslate(t4, RNeg(RHalf(editorImgW(d))),
                           RNeg(RHalf(editorImgH(d))))
    IN  t5.ctm

\* translate(centerX, centerY) translate(x, y) rotate(rotation) scale(scale)
\* translate(-imgW/2, -imgH/2), line 456
editorImageTransform(model, d) ==
    LET c  == editorCenter(model)
        t1 == ctxTranslate(NewContext, c.x, c.y)
        t2 == ctxTranslate(t1, d.x, d.y)
        t3 == ctxRotate(t2, d.rotation)
        t4 == ctxScale(t3, d.scale, d.scale)
        t5 == ctxTranslate(t4, RNeg(RHalf(editorImgW(d))),
                           RNeg(RHalf(editorImgH(d))))
    IN  t5.ctm

\* the <image> element, or Null when the design has no image
editorImage(model, d) ==
    IF d.imageSrc = "" THEN Null
    ELSE Some([href |-> d.imageSrc, x |-> R(0), y |-> R(0),
               width |-> editorImgW(d), height |-> editorImgH(d),
               transform |-> editorImageTransform(model, d),
               clipPath |-> model.svgPath])

\* one <g transform="translate(textX, textY) rotate(rotation)"><text .../></g>
editorText(model, textEl) ==
    LET c  == editorCenter(model)
        t1 == ctxTranslate(NewContext, RAdd(c.x, textEl.x), RAdd(c.y, textEl.y))
        t2 == ctxRotate(t1, textEl.rotation)
    IN  [text |-> textEl.text, x |-> R(0), y |-> R(0),
         fontSize |-> RMul(textEl.fontSize, textEl.scale),
         fontFamily |-> textEl.fontFamily, fontWeight |-> 600,
         fill |-> IF textEl.color # "" THEN textEl.color ELSE "#1e293b",
         textAnchor |-> "middle", dominantBaseline |-> "middle",
         transform |-> t2.ctm, clipPath |-> model.svgPath]

editorTexts(model, d) ==
    [i \in 1..Len(d.textElements) |-> editorText(model, d.textElements[i])]

PrintFiles ==
    { File(<<"case", ".svg">>, TRUE, TRUE, <<sCaseRect, sCamCircle>>),
      File(<<"round", ".svg">>, TRUE, TRUE, <<sCaseStroke>>),
      File(<<"poly", ".svg">>, TRUE, TRUE, <<sCasePoly, sSafeRect>>) }

PrintModels == { processSingleTemplate(f, TemplateId(1)).model[1] : f \in PrintFiles }

PendingPrint == [status |-> "pending", canvas |-> [width |-> R(0), height |-> R(0)],
                 ops |-> <<>>]
IdlePrint == /\ pModel = processSingleTemplate(
                             File(<<"case", ".svg">>, TRUE, TRUE, <<sCaseRect>>),
                             TemplateId(0)).model[1]
             /\ pDesign = INITIAL_DESIGN
             /\ pOut = [PendingPrint EXCEPT !.status = "idle"]

----------------------------------------------------------------------------
(* The App component: admin session, views and the template catalog *)

EDITOR    == "EDITOR"
TEMPLATES == "TEMPLATES"
ORDERS    == "ORDERS"
SUCCESS   == "SUCCESS"
ViewModes == {EDITOR, TEMPLATES, ORDERS, SUCCESS}

\* the files an admin uploads
UploadFiles ==
    { File(<<"case", ".svg">>, TRUE, TRUE, <<sCaseRect, sCamCircle>>),
      File(<<"round", ".svg">>, TRUE, TRUE, <<sOther, sCaseStroke, sSafeRect>>),
      File(<<"plain", ".svg">>, TRUE, TRUE, <<sOther, sCamCircle>>),
      File(<<"hollow", ".svg">>, TRUE, TRUE, <<sCaseEmpty, sSafeRect>>) }

\* a catalog found in localStorage when the component is constructed
StoredCatalogs ==
    { <<>>,
      << processSingleTemplate(File(<<"stock", ".svg">>, TRUE, TRUE, <<sCaseRect>>),
                               TemplateId(0)).model[1] >> }

IdleUpload == [status |-> "idle", files |-> <<>>, success |-> <<>>, errors |-> <<>>]

\* availableModels[0] || null
firstOrNull(models) == IF Len(models) > 0 THEN Some(models[1]) ELSE Null

ModelIds(models) == {models[i].id : i \in 1..Len(models)}

\* prev.filter(m => m.id !== id)
RECURSIVE withoutId(_, _)
withoutId(models, id) ==
    IF models = <<>> THEN <<>>
    ELSE (IF Head(models).id # id THEN <<Head(models)>> ELSE <<>>)
         \o withoutId(Tail(models), id)

\* availableModels.find(m => m.id === id), as an option
RECURSIVE findById(_, _)
findById(models, id) ==
    IF models = <<>> THEN Null
    ELSE IF Head(models).id = id THEN Some(Head(models))
    ELSE findById(Tail(models), id)

\* no effect: the selection stays whatever the catalog becomes
selectedModelEffect_keep(models, sel) == sel

\* the effect of lines 532-538, run after every render in which
\* availableModels or selectedModel changed: the selection it settles on
selectedModelEffect(models, sel) ==
    IF sel # Null /\ findById(models, sel[1].id) = Null THEN firstOrNull(models)
    ELSE IF sel = Null /\ Len(models) > 0 THEN Some(models[1])
    ELSE sel

\* the render guards of lines 1374-1379 and 1551-1556: an admin view without
\* the admin flag is replaced by the editor
viewGuard(view, admin) ==
    IF (view = TEMPLATES \/ view = ORDERS) /\ ~admin THEN EDITOR ELSE view

InitApp ==
    /\ viewMode = EDITOR
    /\ isAdmin = FALSE
    /\ isLoginModalOpen = FALSE
    /\ availableModels \in StoredCatalogs
    /\ selectedModel = firstOrNull(availableModels)
    /\ pendingDeleteId = ""
    /\ upload = IdleUpload
    /\ nextId = 1

\* handleToggleAdmin, lines 542-553
\* a logout that leaves the view where it is
handleToggleAdmin_keepView ==
    /\ IF isAdmin
       THEN /\ isAdmin' = FALSE
            /\ UNCHANGED <<viewMode, isLoginModalOpen>>
       ELSE /\ isLoginModalOpen' = TRUE
            /\ UNCHANGED <<isAdmin, viewMode>>
    /\ UNCHANGED <<availableModels, selectedModel, pendingDeleteId, upload, nextId>>

handleToggleAdmin ==
    /\ IF isAdmin
       THEN /\ isAdmin' = FALSE
            /\ viewMode' = EDITOR
            /\ UNCHANGED isLoginModalOpen
       ELSE /\ isLoginModalOpen' = TRUE
            /\ UNCHANGED <<isAdmin, viewMode>>
    /\ UNCHANGED <<availableModels, selectedModel, pendingDeleteId, upload, nextId>>

\* handleLoginSubmit, lines 555-570
handleLoginSubmit(passwordOk) ==
    /\ isLoginModalOpen
    /\ IF passwordOk
       THEN /\ isAdmin' = TRUE
            /\ isLoginModalOpen' = FALSE
            /\ viewMode' = TEMPLATES
       ELSE UNCHANGED <<isAdmin, isLoginModalOpen, viewMode>>
    /\ UNCHANGED <<availableModels, selectedModel, pendingDeleteId, upload, nextId>>

\* the close buttons of the login modal, lines 1331 and 1344
closeLoginModal ==
    /\ isLoginModalOpen
    /\ isLoginModalOpen' = FALSE
    /\ UNCHANGED <<viewMode, isAdmin, availableModels, selectedModel,
                   pendingDeleteId, upload, nextId>>

\* the navigation of the Header (onChangeView = setViewMode): the editor
\* always, the admin views only while the links are rendered
onChangeView(view) ==
    /\ view = EDITOR \/ (isAdmin /\ view \in {TEMPLATES, ORDERS})
    /\ viewMode' = viewGuard(view, isAdmin)
    /\ UNCHANGED <<isAdmin, isLoginModalOpen, availableModels, selectedModel,
                   pendingDeleteId, upload, nextId>>

\* the model <select> of the editor, lines 1718-1724
selectModel(id) ==
    /\ viewMode = EDITOR
    /\ findById(availableModels, id) # Null
    /\ selectedModel' = selectedModelEffect(availableModels, findById(availableModels, id))
    /\ UNCHANGED <<viewMode, isAdmin, isLoginModalOpen, availableModels,
                   pendingDeleteId, upload, nextId>>

\* handleDeleteModel, lines 572-589 (the admin button of the editor), with
\* the answer of window.confirm
handleDeleteModel(confirmed) ==
    /\ viewMode = EDITOR /\ isAdmin
    /\ IF selectedModel = Null \/ Len(availableModels) <= 1 \/ ~confirmed
       THEN UNCHANGED <<availableModels, selectedModel>>
       ELSE LET updated == withoutId(availableModels, selectedModel[1].id) IN
            /\ availableModels' = updated
            /\ selectedModel' = selectedModelEffect(updated, firstOrNull(updated))
    /\ UNCHANGED <<viewMode, isAdmin, isLoginModalOpen, pendingDeleteId, upload, nextId>>

\* the delete button of a row of the templates page, line 1532, and its
\* cancel button, line 1523
askDeleteTemplate(id) ==
    /\ viewMode = TEMPLATES /\ isAdmin
    /\ id \in ModelIds(availableModels) \cup {""}
    /\ pendingDeleteId' = id
    /\ UNCHANGED <<viewMode, isAdmin, isLoginModalOpen, availableModels,
                   selectedModel, upload, nextId>>

\* the confirm button of a row of the templates page, lines 1502-1516
confirmDeleteTemplate ==
    /\ viewMode = TEMPLATES /\ isAdmin
    /\ pendingDeleteId \in ModelIds(availableModels)
    /\ IF Len(availableModels) <= 1
       THEN UNCHANGED <<availableModels, selectedModel>>
       ELSE LET updated == withoutId(availableModels, pendingDeleteId) IN
            /\ availableModels' = updated
            /\ selectedModel' =
                 selectedModelEffect(updated,
                    IF selectedModel # Null /\ selectedModel[1].id = pendingDeleteId
                    THEN firstOrNull(updated) ELSE selectedModel)
    /\ pendingDeleteId' = ""
    /\ UNCHANGED <<viewMode, isAdmin, isLoginModalOpen, upload, nextId>>


\* handleTemplateUpload, lines 1111-1162, up to its first await: the admin
\* check, the empty selection, then the files queued for processing.  One
\* upload runs at a time.
handleTemplateUpload(files) ==
    /\ upload.status # "running"
    /\ nextId + Len(files) - 1 <= MaxIds
    /\ IF ~isAdmin \/ Len(files) = 0
       THEN UNCHANGED upload
       ELSE upload' = [status |-> "running", files |-> files,
                       success |-> <<>>, errors |-> <<>>]
    /\ UNCHANGED <<viewMode, isAdmin, isLoginModalOpen, availableModels,
                   selectedModel, pendingDeleteId, nextId>>

\* lines 1137-1141 once the loop is over: the catalog and the selection
uploadCommit(models, sel, success) ==
    IF Len(success) > 0
    THEN [models |-> models \o success,
          sel |-> selectedModelEffect(models \o success, Some(success[1]))]
    ELSE [models |-> models, sel |-> sel]

\* the continuation of `await processSingleTemplate(file)` for the file in
\* front, whose promise settled as out: the result joins results.success or
\* results.errors; after the last file the successes are added to the
\* catalog (lines 1126-1161)
templateSettled(file, out) ==
    LET success == IF out.status = "resolved"
                   THEN Append(upload.success, out.model[1]) ELSE upload.success
        errors == IF out.status = "resolved" THEN upload.errors
                  ELSE Append(upload.errors,
                              [fileName |-> file.name, error |-> out.error])
        rest == Tail(upload.files)
    IN  /\ nextId' = IF out.status = "resolved" THEN nextId + 1 ELSE nextId
        /\ IF rest # <<>>
           THEN /\ upload' = [upload EXCEPT !.files = rest, !.success = success,
                                            !.errors = errors]
                /\ UNCHANGED <<availableModels, selectedModel>>
           ELSE /\ upload' = [status |-> "done", files |-> <<>>,
                              success |-> success, errors |-> errors]
                /\ availableModels' =
                     uploadCommit(availableModels, selectedModel, success).models
                /\ selectedModel' =
                     uploadCommit(availableModels, selectedModel, success).sel

templateProcessed ==
    /\ upload.status = "running"
    /\ templateSettled(Head(upload.files),
                       processSingleTemplate(Head(upload.files), TemplateId(nextId)))
    /\ UNCHANGED <<viewMode, isAdmin, isLoginModalOpen, pendingDeleteId>>

NextApp ==
    \/ handleToggleAdmin
    \/ \E ok \in BOOLEAN : handleLoginSubmit(ok)
    \/ closeLoginModal
    \/ \E view \in {EDITOR, TEMPLATES, ORDERS} : onChangeView(view)
    \/ \E id \in ModelIds(availableModels) : selectModel(id)
    \/ \E confirmed \in BOOLEAN : handleDeleteModel(confirmed)
    \/ \E id \in ModelIds(availableModels) \cup {""} : askDeleteTemplate(id)
    \/ confirmDeleteTemplate
    \/ \E files \in SeqsUpTo(UploadFiles, MaxFiles) : handleTemplateUpload(files)
    \/ templateProcessed

----------------------------------------------------------------------------
(* The design session: the handlers of PhoneEditor                           *)
(* (src/components/PhoneEditor.tsx) and of the editor view of App that       *)
(* change DesignState.  onDesignChange is setDesign.  One pointer gesture is *)
(* in progress at a time, and one handleFileUpload call.                     *)

NoGesture == [kind |-> "none"]

\* PhoneEditor is rendered in the editor view while a model is selected
editorMounted == viewMode = EDITOR /\ selectedModel # Null

\* Math.max(lo, Math.min(hi, v))
clamp(lo, hi, v) == RMax(lo, RMin(hi, v))

\* the size ResizeObserver reports for the editor's container
ContainerSize == [width |-> R(800), height |-> R(600)]

\* editorScale, PhoneEditor.tsx:74-86
editorScale(containerSize, model) ==
    IF containerSize.height = R(0) \/ model.height = R(0) THEN R(1)
    ELSE LET availableH == RMul(containerSize.height, Frac(85, 100))
             availableW == RMul(containerSize.width, Frac(85, 100))
         IN  RMin(RDiv(availableH, model.height), RDiv(availableW, model.width))

\* design.textElements.find(t => t.id === id), as an option
RECURSIVE findText(_, _)
findText(texts, id) ==
    IF texts = <<>> THEN Null
    ELSE IF Head(texts).id = id THEN Some(Head(texts))
    ELSE findText(Tail(texts), id)

\* design.textElements.map(t => t.id === id ? change(t) : t)
mapText(texts, id, change(_)) ==
    [i \in 1..Len(texts) |-> IF texts[i].id = id THEN change(texts[i]) ELSE texts[i]]

TextIds(d) == {d.textElements[i].id : i \in 1..Len(d.textElements)}

\* one more edit of the design: edits lists the handlers that have set it
countEdit(handler) == Len(edits) < MaxEdits /\ edits' = Append(edits, handler)

\* the image scale after a wheel event, handleWheel lines 92-95
wheelScale(scale, deltaY, ctrlKey) ==
    LET zoomStep == IF ctrlKey THEN Frac(1, 10) ELSE Frac(5, 100)
        delta == R(-deltaY)
    IN  clamp(Frac(1, 10), R(10), RAdd(scale, RMul(delta, zoomStep)))

\* handleWheel, PhoneEditor.tsx:89-98; deltaY is Math.sign(e.deltaY)
handleWheel(deltaY, ctrlKey) ==
    /\ editorMounted
    /\ countEdit("handleWheel")
    /\ design' = [design EXCEPT !.scale = wheelScale(design.scale, deltaY, ctrlKey)]
    /\ UNCHANGED <<selectedTextId, gesture, fileLoad, nextText>>

\* handleMouseDown, PhoneEditor.tsx:111-152, on the image layer
handleMouseDown ==
    /\ editorMounted
    /\ gesture = NoGesture
    /\ IF selectedTextId # "" \/ design.imageSrc = ""
       THEN UNCHANGED gesture
       ELSE gesture' = [kind |-> "drag", initialDesignX |-> design.x,
                        initialDesignY |-> design.y]
    /\ UNCHANGED <<design, selectedTextId, fileLoad, nextText, edits>>

\* the design after a pan by (dx, dy) screen pixels, lines 165-176 and 245-255
panned(d, start, dx, dy, scale) ==
    [d EXCEPT !.x = RAdd(start.initialDesignX, RDiv(dx, scale)),
              !.y = RAdd(start.initialDesignY, RDiv(dy, scale))]

\* handleWindowMouseMove, PhoneEditor.tsx:155-177, and the pan branch of
\* handleTouchMove, lines 243-256
handleWindowMouseMove(dx, dy) ==
    /\ editorMounted
    /\ gesture.kind = "drag"
    /\ countEdit("handleWindowMouseMove")
    /\ design' = panned(design, gesture, dx, dy,
                        editorScale(ContainerSize, selectedModel[1]))
    /\ UNCHANGED <<selectedTextId, gesture, fileLoad, nextText>>

\* handleWindowMouseUp, handleTouchEnd, handleTextMouseUp and handleRotateUp
\* (which selects the rotated text again, line 644)
handlePointerUp ==
    /\ gesture # NoGesture
    /\ gesture' = NoGesture
    /\ selectedTextId' = IF gesture.kind = "rotate" THEN gesture.id ELSE selectedTextId
    /\ UNCHANGED <<design, fileLoad, nextText, edits>>

\* handleTouchStart, PhoneEditor.tsx:204-229, with the number of touches
handleTouchStart(touches) ==
    /\ editorMounted
    /\ gesture = NoGesture
    /\ IF design.imageSrc = "" THEN UNCHANGED gesture
       ELSE IF touches = 2
       THEN gesture' = [kind |-> "pinch", initialScale |-> design.scale]
       ELSE gesture' = [kind |-> "drag", initialDesignX |-> design.x,
                        initialDesignY |-> design.y]
    /\ UNCHANGED <<design, selectedTextId, fileLoad, nextText, edits>>

\* the pinch branch of handleTouchMove, PhoneEditor.tsx:233-240; ratio is
\* currentDist / startDistance
handleTouchMove(ratio) ==
    /\ editorMounted
    /\ gesture.kind = "pinch"
    /\ countEdit("handleTouchMove")
    /\ design' = [design EXCEPT
                    !.scale = clamp(Frac(1, 10), R(10), RMul(gesture.initialScale, ratio))]
    /\ UNCHANGED <<selectedTextId, gesture, fileLoad, nextText>>

\* the sliders of the image controls, App.tsx:2067-2090, shown while the
\* design has an image and no text is selected
imageControlsShown == viewMode = EDITOR /\ design.imageSrc # "" /\ selectedTextId = ""

setImageScale(value) ==
    /\ imageControlsShown
    /\ countEdit("setImageScale")
    /\ design' = [design EXCEPT !.scale = value]
    /\ UNCHANGED <<selectedTextId, gesture, fileLoad, nextText>>

setImageRotation(value) ==
    /\ imageControlsShown
    /\ countEdit("setImageRotation")
    /\ design' = [design EXCEPT !.rotation = value]
    /\ UNCHANGED <<selectedTextId, gesture, fileLoad, nextText>>

\* handleCenter, App.tsx:894-900
handleCenter ==
    /\ imageControlsShown
    /\ countEdit("handleCenter")
    /\ design' = [design EXCEPT !.x = R(0), !.y = R(0)]
    /\ UNCHANGED <<selectedTextId, gesture, fileLoad, nextText>>

\* a fit that multiplies the current scale by the cover ratio
autoFill_relative(d, model) ==
    [d EXCEPT !.scale = RMul(d.scale, RMax(RDiv(model.width, d.imgWidth[1]),
                                           RDiv(model.height, d.imgHeight[1]))),
              !.x = R(0), !.y = R(0), !.rotation = 0]

\* the design handleAutoFill sets, App.tsx:881-891
autoFill(d, model) ==
    [d EXCEPT !.scale = RMax(RDiv(model.width, d.imgWidth[1]),
                             RDiv(model.height, d.imgHeight[1])),
              !.x = R(0), !.y = R(0), !.rotation = 0]

\* the guard of handleAutoFill, App.tsx:879
canAutoFill(d, sel) ==
    /\ d.imageSrc # ""
    /\ d.imgWidth # Null /\ d.imgWidth # Some(R(0))
    /\ d.imgHeight # Null /\ d.imgHeight # Some(R(0))
    /\ sel # Null

\* handleAutoFill, App.tsx:878-892
handleAutoFill ==
    /\ imageControlsShown
    /\ countEdit("handleAutoFill")
    /\ design' = IF canAutoFill(design, selectedModel)
                 THEN autoFill(design, selectedModel[1]) ELSE design
    /\ UNCHANGED <<selectedTextId, gesture, fileLoad, nextText>>

\* handleAddText, App.tsx:902-926; text is textInput.trim()
handleAddText(text) ==
    /\ viewMode = EDITOR
    /\ nextText <= MaxTexts
    /\ IF text = "" \/ selectedModel = Null
       THEN UNCHANGED <<design, selectedTextId, nextText>>
       ELSE /\ design' = [design EXCEPT !.textElements =
                            Append(@, [id |-> "text-" \o ToString(nextText),
                                       text |-> text, fontFamily |-> "Roboto",
                                       x |-> R(0), y |-> R(0), scale |-> R(1),
                                       rotation |-> 0, fontSize |-> R(24),
                                       color |-> "#1e293b"])]
            /\ selectedTextId' = "text-" \o ToString(nextText)
            /\ nextText' = nextText + 1
    /\ UNCHANGED <<gesture, fileLoad, edits>>

\* the delete button of a row of the text list, App.tsx:1964-1970
deleteText(id) ==
    /\ viewMode = EDITOR
    /\ id \in TextIds(design)
    /\ design' = [design EXCEPT !.textElements = SelectSeq(@, LAMBDA t : t.id # id)]
    /\ UNCHANGED <<selectedTextId, gesture, fileLoad, nextText, edits>>

\* the text controls, App.tsx:2096-2158, are shown while the selected text
\* exists
textControlsShown ==
    viewMode = EDITOR /\ selectedTextId # "" /\ selectedTextId \in TextIds(design)

\* the click on the background of PhoneEditor, lines 363-373
backgroundClick ==
    /\ editorMounted
    /\ selectedTextId # ""
    /\ gesture.kind # "rotate"
    /\ selectedTextId' = ""
    /\ UNCHANGED <<design, gesture, fileLoad, nextText, edits>>

\* the deselect button of the text controls, App.tsx:2148-2152
cancelSelection ==
    /\ textControlsShown
    /\ selectedTextId' = ""
    /\ UNCHANGED <<design, gesture, fileLoad, nextText, edits>>

\* handleTextMouseDown, PhoneEditor.tsx:266-286
handleTextMouseDown(textId) ==
    /\ editorMounted
    /\ gesture = NoGesture
    /\ textId \in TextIds(design)
    /\ gesture' = [kind |-> "textDrag", id |-> textId,
                   initialX |-> findText(design.textElements, textId)[1].x,
                   initialY |-> findText(design.textElements, textId)[1].y]
    /\ selectedTextId' = textId
    /\ UNCHANGED <<design, fileLoad, nextText, edits>>

\* handleTextMouseMove, PhoneEditor.tsx:289-313
handleTextMouseMove(dx, dy) ==
    /\ editorMounted
    /\ gesture.kind = "textDrag"
    /\ countEdit("handleTextMouseMove")
    /\ design' = [design EXCEPT !.textElements =
                    mapText(@, gesture.id,
                            LAMBDA t : [t EXCEPT
                              !.x = RAdd(gesture.initialX,
                                         RDiv(dx, editorScale(ContainerSize, selectedModel[1]))),
                              !.y = RAdd(gesture.initialY,
                                         RDiv(dy, editorScale(ContainerSize, selectedModel[1])))])]
    /\ UNCHANGED <<selectedTextId, gesture, fileLoad, nextText>>

\* the text scale after a wheel event, handleTextWheel lines 336-338
textWheelScale(scale, deltaY, ctrlKey) ==
    LET zoomStep == IF ctrlKey THEN Frac(5, 100) ELSE Frac(1, 10)
        delta == R(-deltaY)
    IN  clamp(Frac(1, 10), R(5), RAdd(scale, RMul(delta, zoomStep)))

\* handleTextWheel, PhoneEditor.tsx:331-348
handleTextWheel(textId, deltaY, ctrlKey) ==
    /\ editorMounted
    /\ textId \in TextIds(design)
    /\ countEdit("handleTextWheel")
    /\ design' = [design EXCEPT !.textElements =
                    mapText(@, textId,
                            LAMBDA t : [t EXCEPT
                              !.scale = textWheelScale(t.scale, deltaY, ctrlKey)])]
    /\ UNCHANGED <<selectedTextId, gesture, fileLoad, nextText>>

\* onMouseDown of the rotation handle, PhoneEditor.tsx:588-656: the handle
\* is drawn on the selected text; handleRotateMove keeps the design and the
\* text element of this render
handleRotateDown(textId) ==
    /\ editorMounted
    /\ gesture = NoGesture
    /\ textId = selectedTextId
    /\ textId \in TextIds(design)
    /\ gesture' = [kind |-> "rotate", id |-> textId,
                   startRotation |-> findText(design.textElements, textId)[1].rotation,
                   design |-> design]
    /\ UNCHANGED <<design, selectedTextId, fileLoad, nextText, edits>>

\* (startRotation + angleDiff + 360) % 360, line 629
newRotation(startRotation, angleDiff) == (startRotation + angleDiff + 360) % 360

\* the design handleRotateMove sets, lines 631-638: the design of the render
\* in which the handle was pressed, with the text's rotation replaced
rotated(start, angleDiff) ==
    [start.design EXCEPT !.textElements =
        mapText(@, start.id,
                LAMBDA t : [t EXCEPT
                  !.rotation = newRotation(start.startRotation, angleDiff)])]

\* handleRotateMove, PhoneEditor.tsx:621-639; angleDiff is normalised to
\* [-180, 180]
handleRotateMove(angleDiff) ==
    /\ gesture.kind = "rotate"
    /\ countEdit("handleRotateMove")
    /\ design' = rotated(gesture, angleDiff)
    /\ UNCHANGED <<selectedTextId, gesture, fileLoad, nextText>>

\* the sliders of the text controls, App.tsx:2112-2143
setTextScale(value) ==
    /\ textControlsShown
    /\ countEdit("setTextScale")
    /\ design' = [design EXCEPT !.textElements =
                    mapText(@, selectedTextId, LAMBDA t : [t EXCEPT !.scale = value])]
    /\ UNCHANGED <<selectedTextId, gesture, fileLoad, nextText>>

setTextRotation(value) ==
    /\ textControlsShown
    /\ countEdit("setTextRotation")
    /\ design' = [design EXCEPT !.textElements =
                    mapText(@, selectedTextId, LAMBDA t : [t EXCEPT !.rotation = value])]
    /\ UNCHANGED <<selectedTextId, gesture, fileLoad, nextText>>

\* the font <select>, App.tsx:1827-1844: the selected text, or every text
\* when none is selected
setFont(newFont) ==
    /\ viewMode = EDITOR
    /\ design.textElements # <<>>
    /\ countEdit("setFont")
    /\ design' = [design EXCEPT !.textElements =
                    [i \in 1..Len(@) |->
                       IF selectedTextId = "" \/ @[i].id = selectedTextId
                       THEN [@[i] EXCEPT !.fontFamily = newFont] ELSE @[i]]]
    /\ UNCHANGED <<selectedTextId, gesture, fileLoad, nextText>>

\* the colour bar and the hex input, App.tsx:1878-1922
setColor(color) ==
    /\ viewMode = EDITOR
    /\ design.textElements # <<>>
    /\ countEdit("setColor")
    /\ design' = [design EXCEPT !.textElements =
                    [i \in 1..Len(@) |->
                       IF selectedTextId = "" \/ @[i].id = selectedTextId
                       THEN [@[i] EXCEPT !.color = color] ELSE @[i]]]
    /\ UNCHANGED <<selectedTextId, gesture, fileLoad, nextText>>

\* the design handleFileUpload sets once the picture is decoded, lines
\* 858-868: the initial design with the cover scale for the model selected
\* when the file was chosen
loadedDesign(img, model) ==
    withImage([INITIAL_DESIGN EXCEPT
                 !.scale = RMax(RDiv(model.width, optimizeImage(img).finalWidth),
                                RDiv(model.height, optimizeImage(img).finalHeight))],
              img)

\* a check of the width alone
tooSmall_widthOnly(img) == RLt(img.width, R(300))

\* img.width < 300 || img.height < 500, line 820, and
\* finalWidth < 300 || finalHeight < 500 for a PDF page, line 737
tooSmall(img) == RLt(img.width, R(300)) \/ RLt(img.height, R(500))

\* handleFileUpload, App.tsx:701-876, up to reader.readAsDataURL for a
\* picture chosen in the file input
handleFileUpload(img) ==
    /\ viewMode = EDITOR
    /\ fileLoad = Null
    /\ IF selectedModel = Null THEN UNCHANGED fileLoad
       ELSE fileLoad' = Some([img |-> img, selectedModel |-> selectedModel[1]])
    /\ UNCHANGED <<design, selectedTextId, gesture, nextText, edits>>

\* reader.onload and then img.onload or img.onerror, lines 814-873
fileLoaded ==
    /\ fileLoad # Null
    /\ fileLoad' = Null
    /\ design' = IF ~fileLoad[1].img.loads \/ tooSmall(fileLoad[1].img) THEN design
                 ELSE loadedDesign(fileLoad[1].img, fileLoad[1].selectedModel)
    /\ UNCHANGED <<selectedTextId, gesture, nextText, edits>>

----------------------------------------------------------------------------
(* Submission: handleSubmitOrder, src/App.tsx:1246-1287, in the steps its    *)
(* awaits cut it into, and the buttons of the success view, lines 1647-1694. *)
(* selectedModel and design inside the handler are the values of the render  *)
(* in which the button was pressed.                                          *)

\* alert is the message of the last alert() the handler has raised
IdleSubmit ==
    [pc |-> "idle", selectedModel |-> Null, design |-> Null, order |-> Null, alert |-> ""]

ErrPrintFile == "Nepodarilo sa vygenerovat tlacovy subor."

\* an order whose design is the live one at completion instead of the
\* rendered one
makeOrder_liveDesign(n, model, rendered, live, printFileUrl) ==
    [id |-> "ORD-" \o ToString(n), modelId |-> model.id, modelName |-> model.name,
     design |-> [live EXCEPT !.imageSrc = ""], printFileUrl |-> printFileUrl]

\* the OrderSubmission of lines 1255-1266
makeOrder(n, model, rendered, live, printFileUrl) ==
    [id |-> "ORD-" \o ToString(n), modelId |-> model.id, modelName |-> model.name,
     design |-> [rendered EXCEPT !.imageSrc = ""], printFileUrl |-> printFileUrl]

\* handleSubmitOrder up to `await generatePrintFile`, lines 1246-1252; the
\* button is disabled without an image and while isUploading (line 1984)
handleSubmitOrder ==
    /\ viewMode = EDITOR
    /\ design.imageSrc # "" /\ ~isUploading
    /\ Len(orders) < MaxOrders
    /\ IF selectedModel = Null THEN UNCHANGED <<isUploading, submit>>
       ELSE /\ isUploading' = TRUE
            /\ submit' = [pc |-> "rendering", selectedModel |-> selectedModel[1],
                          design |-> design, order |-> Null, alert |-> ""]
    /\ UNCHANGED orders

\* a handler without the finally clause: a failure leaves the flag set
printSettled_noFinally(out) ==
    /\ IF out.status = "resolved"
       THEN /\ submit' = [submit EXCEPT
                            !.pc = "waiting",
                            !.order = Some(makeOrder(Len(orders) + 1, submit.selectedModel,
                                                     submit.design, design, out))]
            /\ UNCHANGED isUploading
       ELSE /\ submit' = [IdleSubmit EXCEPT !.alert = ErrPrintFile]
            /\ UNCHANGED isUploading
    /\ UNCHANGED orders

\* the promise of generatePrintFile settles as out: the order is built and
\* the 1500 ms timer started (lines 1255-1268), or the error is caught and
\* the flag cleared (lines 1281-1286)
printSettled(out) ==
    /\ IF out.status = "resolved"
       THEN /\ submit' = [submit EXCEPT
                            !.pc = "waiting",
                            !.order = Some(makeOrder(Len(orders) + 1, submit.selectedModel,
                                                     submit.design, design, out))]
            /\ UNCHANGED isUploading
       ELSE /\ submit' = [IdleSubmit EXCEPT !.alert = ErrPrintFile]
            /\ isUploading' = FALSE
    /\ UNCHANGED orders

submitRendered ==
    /\ submit.pc = "rendering"
    /\ printSettled(generatePrintFile(submit.selectedModel, submit.design))

\* the timer fires: setOrders(prev => [order, ...prev]), then
\* `await syncOrders.save(order)` (lines 1270-1274)
submitTimer ==
    /\ submit.pc = "waiting"
    /\ orders' = <<submit.order[1]>> \o orders
    /\ submit' = [submit EXCEPT !.pc = "saving"]
    /\ UNCHANGED isUploading

\* syncOrders.save settles (a failure is caught and ignored, lines 1275-1278):
\* setViewMode(ViewMode.SUCCESS) and, in finally, setIsUploading(false)
submitSaved ==
    /\ submit.pc = "saving"
    /\ viewMode' = SUCCESS
    /\ isUploading' = FALSE
    /\ submit' = IdleSubmit
    /\ UNCHANGED orders

\* the button "create another" of the success view, lines 1680-1688
createAnother ==
    /\ viewMode = SUCCESS
    /\ design' = INITIAL_DESIGN
    /\ viewMode' = EDITOR
    /\ UNCHANGED <<selectedTextId, gesture, fileLoad, nextText, edits>>

\* the admin's button "show orders" of the success view, lines 1672-1679
showOrders ==
    /\ viewMode = SUCCESS /\ isAdmin
    /\ viewMode' = viewGuard(ORDERS, isAdmin)

\* the variables of the App component other than viewMode
catalogVars == <<isAdmin, isLoginModalOpen, availableModels, selectedModel,
                 pendingDeleteId, upload, nextId>>

----------------------------------------------------------------------------
(* Export and import of the catalog: handleExportTemplates and              *)
(* handleImportTemplates, src/App.tsx:649-696.  A JSON text is the value it *)
(* denotes; a number that is not finite has no JSON form and is written as  *)
(* null.                                                                    *)

JsonNull == [json |-> "null"]

\* JSON.stringify of a number or null: NaN and Infinity become null
stringifyNumber(v) == IF v = JsonNull THEN JsonNull ELSE IF v.d = 0 THEN JsonNull ELSE v

\* JSON.stringify of a PhoneModel: strings and paths are written as they
\* are, numbers by stringifyNumber
stringifyModel(m) ==
    [m EXCEPT !.width = stringifyNumber(@), !.height = stringifyNumber(@),
              !.minX = stringifyNumber(@), !.minY = stringifyNumber(@),
              !.screenRatio = stringifyNumber(@)]

\* JSON.stringify(availableModels, null, 2)
JSONstringify(models) ==
    [valid |-> TRUE, array |-> TRUE,
     value |-> [i \in 1..Len(models) |-> stringifyModel(models[i])]]

\* a text that is not JSON, and the JSON text of an object
BadText    == [valid |-> FALSE, array |-> FALSE, value |-> <<>>]
ObjectText == [valid |-> TRUE, array |-> FALSE, value |-> <<>>]

\* JSON.parse: the value the text denotes (null stays null); it throws on a
\* text that is not JSON
JSONparse(text) ==
    IF text.valid THEN [threw |-> FALSE, value |-> text.value]
    ELSE [threw |-> TRUE, value |-> <<>>]

\* handleExportTemplates, lines 649-660: the catalog is downloaded
handleExportTemplates ==
    /\ viewMode = TEMPLATES /\ isAdmin
    /\ exported' = Some(JSONstringify(availableModels))
    /\ UNCHANGED appVars

\* setAvailableModels(imported) and setSelectedModel(imported[0]), lines
\* 674-677, and the effect of lines 532-538 after them
importCommit(models, sel, imported) ==
    [models |-> imported,
     sel |-> selectedModelEffect(imported,
                IF Len(imported) > 0 THEN Some(imported[1]) ELSE sel)]

\* reader.onload of handleImportTemplates, lines 672-690, for a chosen file
\* with this text and the answer of window.confirm
handleImportTemplates(text, confirmed) ==
    /\ viewMode = TEMPLATES /\ isAdmin
    /\ IF ~JSONparse(text).threw /\ text.array /\ confirmed
       THEN /\ availableModels' =
                 importCommit(availableModels, selectedModel, JSONparse(text).value).models
            /\ selectedModel' =
                 importCommit(availableModels, selectedModel, JSONparse(text).value).sel
       ELSE UNCHANGED <<availableModels, selectedModel>>
    /\ UNCHANGED <<viewMode, isAdmin, isLoginModalOpen, pendingDeleteId, upload,
                   nextId, exported>>

\* the callback of syncTemplates.subscribe, App.tsx:419-431, for a snapshot
\* of the templates document, and the effect of lines 532-538 after it
onTemplatesSnapshot(templates) ==
    /\ IF Len(templates) > 0
       THEN /\ availableModels' = templates
            /\ selectedModel' = selectedModelEffect(templates, selectedModel)
       ELSE UNCHANGED <<availableModels, selectedModel>>
    /\ UNCHANGED <<viewMode, isAdmin, isLoginModalOpen, pendingDeleteId, upload,
                   nextId, exported>>

----------------------------------------------------------------------------
(* Firebase sync: src/services/firebaseService.ts and the effects of App,   *)
(* src/App.tsx:358-529.  A template or an order is its id, a catalog or an  *)
(* order list the set of its ids.  A write is queued when setDoc or         *)
(* deleteDoc is called and reaches the server later, in the order of the    *)
(* calls of its device; a state update and the effects it triggers are one  *)
(* step.                                                                    *)

Devices     == {1, 2}

EmptyStorage == [models |-> Null, orders |-> Null, disabled |-> FALSE]

\* localStorage of a browser and the App component in it; db is `db !== null`
NewDevice(db, storage) ==
    [on |-> FALSE, db |-> db, storage |-> storage,
     availableModels |-> {}, orders |-> {},
     isUpdatingTemplatesFromFirebase |-> FALSE, isUpdatingFromFirebase |-> FALSE,
     load |-> "idle", subscribedTemplates |-> FALSE, subscribedOrders |-> FALSE,
     seenTemplates |-> Null, seenOrders |-> Null,
     outbox |-> <<>>, showQuotaWarning |-> FALSE]

\* the templates document (Null while it does not exist), the orders
\* collection, the ids deleteDoc has removed, whether the project is over
\* its quota, and the number of writes it has handled
EmptyFirebase ==
    [templates |-> Null, orders |-> {}, deleted |-> {}, quota |-> FALSE, handled |-> 0]

\* the writes a device may have queued, and the writes the project handles
MaxOutbox == 2
MaxWrites == 3

queued(dev) == Len(dev.outbox) <= MaxOutbox
handles(fb) == [fb EXCEPT !.handled = @ + 1]

\* isFirebaseAvailable, firebaseService.ts:57-59
isFirebaseAvailable(dev) == dev.db /\ ~dev.storage.disabled

\* a call of setDoc or deleteDoc, made by `by`
Write(op, arg, by) == [op |-> op, arg |-> arg, by |-> by]

send(dev, w) == [dev EXCEPT !.outbox = Append(@, w)]

\* syncTemplates.save, firebaseService.ts:84-108, up to setDoc
syncTemplatesSave(dev, templates, by) ==
    IF ~isFirebaseAvailable(dev) THEN dev
    ELSE send(dev, Write("setTemplates", templates, by))

\* syncOrders.save, firebaseService.ts:165-190, up to setDoc
syncOrdersSave(dev, order, by) ==
    IF ~isFirebaseAvailable(dev) THEN dev
    ELSE send(dev, Write("setOrder", order, by))

\* syncOrders.delete, firebaseService.ts:217-229, up to deleteDoc
syncOrdersDelete(dev, orderId, by) ==
    IF ~isFirebaseAvailable(dev) THEN dev
    ELSE send(dev, Write("deleteOrder", orderId, by))

\* orders.forEach(order => syncOrders.save(order))
RECURSIVE saveEach(_, _, _)
saveEach(dev, list, by) ==
    IF list = {} THEN dev
    ELSE LET order == CHOOSE o \in list : TRUE
         IN  saveEach(syncOrdersSave(dev, order, by), list \ {order}, by)

\* syncAllOrders, firebaseService.ts:266-294: every document of the
\* collection is deleted, then every order saved
syncAllOrders(dev, list) ==
    IF ~isFirebaseAvailable(dev) THEN dev
    ELSE saveEach(send(dev, Write("clearOrders", {}, "bulk")), list, "bulk")

\* an effect that saves whatever the flag says
templatesEffect_noFlag(dev, by) ==
    syncTemplatesSave([dev EXCEPT !.storage.models = Some(dev.availableModels)],
                      dev.availableModels, by)

\* the persistence effect of availableModels, App.tsx:484-501
templatesEffect(dev, by) ==
    IF dev.isUpdatingTemplatesFromFirebase THEN dev
    ELSE syncTemplatesSave([dev EXCEPT !.storage.models = Some(dev.availableModels)],
                           dev.availableModels, by)

\* the persistence effect of orders, App.tsx:503-529
ordersEffect(dev, by) ==
    IF dev.isUpdatingFromFirebase THEN dev
    ELSE saveEach([dev EXCEPT !.storage.orders = Some(dev.orders)], dev.orders, by)

\* the value of a localStorage key read as a list: [] when it is absent
stored(item) == IF item = Null THEN {} ELSE item[1]

\* the first render of App and its mount effects, App.tsx:317-348 and
\* 358-529: state from localStorage, loadFromFirebase up to its first await,
\* the two subscriptions, then the two persistence effects
mounted(dev) ==
    LET avail == isFirebaseAvailable(dev)
        app == [dev EXCEPT
                  !.on = TRUE,
                  !.availableModels = stored(dev.storage.models),
                  !.orders = stored(dev.storage.orders),
                  !.isUpdatingTemplatesFromFirebase = FALSE,
                  !.isUpdatingFromFirebase = FALSE,
                  !.load = IF avail THEN "getTemplates" ELSE "noTemplates",
                  !.subscribedTemplates = avail, !.subscribedOrders = avail,
                  !.seenTemplates = Null, !.seenOrders = Null,
                  !.showQuotaWarning = FALSE]
    IN  ordersEffect(templatesEffect(app, "mount"), "mount")

mount(d) ==
    /\ ~devices[d].on
    /\ queued(mounted(devices[d]))
    /\ devices' = [devices EXCEPT ![d] = mounted(devices[d])]
    /\ UNCHANGED firebase

\* the page is closed: localStorage stays, the writes not yet sent are lost
unmount(d) ==
    /\ devices[d].on
    /\ devices' = [devices EXCEPT ![d] = NewDevice(devices[d].db, devices[d].storage)]
    /\ UNCHANGED firebase

\* loadFromFirebase after `await syncTemplates.load()`, App.tsx:363-381, and
\* the call of syncOrders.load; the read fails or returns the document
templatesLoaded(dev, doc) ==
    LET next == [dev EXCEPT !.load = IF isFirebaseAvailable(dev) THEN "getOrders"
                                     ELSE "noOrders"]
    IN  IF doc # Null /\ doc[1] # {}
        THEN templatesEffect([next EXCEPT !.availableModels = doc[1],
                                          !.storage.models = Some(doc[1])], "load")
        ELSE IF stored(dev.storage.models) # {}
        THEN syncTemplatesSave(next, stored(dev.storage.models), "load")
        ELSE next

loadTemplates(d, fails) ==
    /\ devices[d].on
    /\ devices[d].load \in {"getTemplates", "noTemplates"}
    /\ LET dev == templatesLoaded(devices[d],
                               IF devices[d].load = "noTemplates" \/ fails THEN Null
                               ELSE firebase.templates)
       IN  queued(dev) /\ devices' = [devices EXCEPT ![d] = dev]
    /\ UNCHANGED firebase

\* loadFromFirebase after `await syncOrders.load()`, App.tsx:384-399
ordersLoaded(dev, list) ==
    LET next == [dev EXCEPT !.load = "done"]
    IN  IF list # {}
        THEN ordersEffect([next EXCEPT !.orders = list,
                                       !.storage.orders = Some(list)], "load")
        ELSE IF stored(dev.storage.orders) # {}
        THEN syncAllOrders(next, stored(dev.storage.orders))
        ELSE next

loadOrders(d, fails) ==
    /\ devices[d].on
    /\ devices[d].load \in {"getOrders", "noOrders"}
    /\ LET dev == ordersLoaded(devices[d],
                            IF devices[d].load = "noOrders" \/ fails THEN {}
                            ELSE firebase.orders)
       IN  queued(dev) /\ devices' = [devices EXCEPT ![d] = dev]
    /\ UNCHANGED firebase

\* the callback of syncTemplates.subscribe, App.tsx:419-431, and the
\* persistence effect after it
templatesCallback(dev, templates) ==
    IF templates # {}
    THEN templatesEffect([dev EXCEPT !.isUpdatingTemplatesFromFirebase = TRUE,
                                     !.availableModels = templates,
                                     !.storage.models = Some(templates)], "snapshot")
    ELSE dev

\* onSnapshot of the templates document, firebaseService.ts:131-160
templatesSnapshot(d) ==
    /\ devices[d].on /\ devices[d].subscribedTemplates
    /\ firebase.templates # Null
    /\ firebase.templates # devices[d].seenTemplates
    /\ devices' = [devices EXCEPT ![d] =
         [templatesCallback(devices[d], firebase.templates[1])
            EXCEPT !.seenTemplates = firebase.templates]]
    /\ UNCHANGED firebase

\* the callback of syncOrders.subscribe, App.tsx:434-444, and the
\* persistence effect after it
ordersCallback(dev, firebaseOrders) ==
    ordersEffect([dev EXCEPT !.isUpdatingFromFirebase = TRUE,
                             !.orders = firebaseOrders,
                             !.storage.orders = Some(firebaseOrders)], "snapshot")

\* onSnapshot of the orders query, firebaseService.ts:232-263
ordersSnapshot(d) ==
    /\ devices[d].on /\ devices[d].subscribedOrders
    /\ Some(firebase.orders) # devices[d].seenOrders
    /\ devices' = [devices EXCEPT ![d] =
         [ordersCallback(devices[d], firebase.orders)
            EXCEPT !.seenOrders = Some(firebase.orders)]]
    /\ UNCHANGED firebase

\* the 100 ms timers of lines 428-430 and 439-442
templatesFlagTimer(d) ==
    /\ devices[d].on /\ devices[d].isUpdatingTemplatesFromFirebase
    /\ devices' = [devices EXCEPT ![d].isUpdatingTemplatesFromFirebase = FALSE]
    /\ UNCHANGED firebase

ordersFlagTimer(d) ==
    /\ devices[d].on /\ devices[d].isUpdatingFromFirebase
    /\ devices' = [devices EXCEPT ![d].isUpdatingFromFirebase = FALSE]
    /\ UNCHANGED firebase

\* a catalog change of the admin: the upload commit (App.tsx:1137-1141), the
\* delete of a template (App.tsx:572-589 and 1502-1516) or an import
\* (App.tsx:676-683, which also calls syncTemplates.save itself), and the
\* persistence effect after it
catalogChanged(dev, templates, imported) ==
    LET app == [dev EXCEPT !.availableModels = templates]
    IN  templatesEffect(IF imported THEN syncTemplatesSave(app, templates, "import")
                        ELSE app, "effect")

uploadTemplate(d, t) ==
    /\ devices[d].on /\ t \notin devices[d].availableModels
    /\ LET dev == catalogChanged(devices[d], devices[d].availableModels \cup {t}, FALSE)
       IN  queued(dev) /\ devices' = [devices EXCEPT ![d] = dev]
    /\ UNCHANGED firebase

deleteTemplate(d, t) ==
    /\ devices[d].on /\ t \in devices[d].availableModels
    /\ Cardinality(devices[d].availableModels) > 1
    /\ LET dev == catalogChanged(devices[d], devices[d].availableModels \ {t}, FALSE)
       IN  queued(dev) /\ devices' = [devices EXCEPT ![d] = dev]
    /\ UNCHANGED firebase

importTemplates(d, imported) ==
    /\ devices[d].on
    /\ LET dev == catalogChanged(devices[d], imported, TRUE)
       IN  queued(dev) /\ devices' = [devices EXCEPT ![d] = dev]
    /\ UNCHANGED firebase

\* every order id some device or the server has seen
usedOrders ==
    firebase.orders \cup firebase.deleted \cup
    UNION {devices[d].orders \cup stored(devices[d].storage.orders) \cup
           {devices[d].outbox[i].arg : i \in {j \in 1..Len(devices[d].outbox) :
                                              devices[d].outbox[j].op = "setOrder"}}
           : d \in Devices}

\* the end of handleSubmitOrder, App.tsx:1270-1277, and the persistence
\* effect after it
orderSubmitted(dev, order) ==
    ordersEffect(syncOrdersSave([dev EXCEPT !.orders = @ \cup {order}], order, "submit"),
                 "effect")

submitOrder(d, order) ==
    /\ devices[d].on /\ order \notin usedOrders
    /\ LET dev == orderSubmitted(devices[d], order)
       IN  queued(dev) /\ devices' = [devices EXCEPT ![d] = dev]
    /\ UNCHANGED firebase

\* handleDeleteOrder, App.tsx:591-601, and the persistence effect after it
orderDeleted(dev, orderId) ==
    ordersEffect(syncOrdersDelete([dev EXCEPT !.orders = @ \ {orderId}], orderId, "delete"),
                 "effect")

handleDeleteOrder(d, orderId) ==
    /\ devices[d].on /\ orderId \in devices[d].orders
    /\ LET dev == orderDeleted(devices[d], orderId)
       IN  queued(dev) /\ devices' = [devices EXCEPT ![d] = dev]
    /\ UNCHANGED firebase

\* what a write does to the server
applied(fb, w) ==
    CASE w.op = "setTemplates" -> [fb EXCEPT !.templates = Some(w.arg)]
      [] w.op = "setOrder"     -> [fb EXCEPT !.orders = @ \cup {w.arg}]
      [] w.op = "deleteOrder"  -> [fb EXCEPT !.orders = @ \ {w.arg},
                                             !.deleted = @ \cup ({w.arg} \cap fb.orders)]
      [] w.op = "clearOrders"  -> [fb EXCEPT !.orders = {}, !.deleted = @ \cup fb.orders]

\* the writes whose catch block handles a quota error: syncTemplates.save,
\* syncOrders.save and syncAllOrders, but not syncOrders.delete
quotaHandled(w) == w.op # "deleteOrder"

\* setFirebaseDisabled(true) and the firebase-quota-exceeded event, e.g.
\* firebaseService.ts:98-105, with handleQuotaExceeded of App.tsx:460-465
quotaExceeded(dev) ==
    [dev EXCEPT !.storage.disabled = TRUE,
                !.showQuotaWarning = dev.on]

\* a quota error that disables nothing
quotaError_ignored(dev, w) ==
    [dev EXCEPT !.outbox = Tail(dev.outbox)]

\* the catch block of the call that made write w
quotaError(dev, w) ==
    LET rest == IF w.op = "clearOrders"
                THEN SelectSeq(Tail(dev.outbox), LAMBDA x : x.by # "bulk")
                ELSE Tail(dev.outbox)
        left == [dev EXCEPT !.outbox = rest]
    IN  IF quotaHandled(w) THEN quotaExceeded(left) ELSE left

\* the server handles the oldest write of a device: it succeeds, or fails
\* with resource-exhausted while the project is over its quota
serverWrite(d) ==
    /\ devices[d].outbox # <<>>
    /\ firebase.handled < MaxWrites
    /\ LET w == Head(devices[d].outbox)
       IN  IF firebase.quota
           THEN /\ devices' = [devices EXCEPT ![d] = quotaError(devices[d], w)]
                /\ firebase' = handles(firebase)
           ELSE /\ firebase' = handles(applied(firebase, w))
                /\ devices' = [devices EXCEPT ![d].outbox = Tail(@)]

\* the error callback of a subscription, firebaseService.ts:144-154 and
\* 250-260: the listener has ended
subscriptionError(d, templates) ==
    /\ firebase.quota /\ devices[d].on
    /\ IF templates THEN devices[d].subscribedTemplates ELSE devices[d].subscribedOrders
    /\ devices' = [devices EXCEPT ![d] =
         quotaExceeded(IF templates THEN [devices[d] EXCEPT !.subscribedTemplates = FALSE]
                       ELSE [devices[d] EXCEPT !.subscribedOrders = FALSE])]
    /\ UNCHANGED firebase

\* reEnableFirebase, firebaseService.ts:298-302, with handleReEnabled of
\* App.tsx:467-470
reEnableFirebase(d) ==
    /\ devices[d].storage.disabled
    /\ devices' = [devices EXCEPT ![d].storage.disabled = FALSE,
                                  ![d].showQuotaWarning = FALSE]
    /\ UNCHANGED firebase

\* the 15 s timer of handleQuotaExceeded
hideQuotaWarning(d) ==
    /\ devices[d].showQuotaWarning
    /\ devices' = [devices EXCEPT ![d].showQuotaWarning = FALSE]
    /\ UNCHANGED firebase

\* the project runs out of quota, and gets it back
quotaChanges ==
    /\ firebase' = [firebase EXCEPT !.quota = ~@]
    /\ UNCHANGED devices

IdleSync ==
    /\ firebase = EmptyFirebase
    /\ devices = [d \in Devices |-> NewDevice(FALSE, EmptyStorage)]

----------------------------------------------------------------------------
(* The session the editor and the submission are checked on: two templates *)
(* in the catalog, the first one selected, nothing designed yet            *)

SessionFiles ==
    << File(<<"case", ".svg">>, TRUE, TRUE, <<sCaseRect, sCamCircle>>),
       File(<<"round", ".svg">>, TRUE, TRUE, <<sCaseStroke, sSafeRect>>) >>

SessionCatalog ==
    [i \in 1..Len(SessionFiles) |->
        processSingleTemplate(SessionFiles[i], TemplateId(i)).model[1]]

IdleSession ==
    /\ design = INITIAL_DESIGN /\ selectedTextId = "" /\ gesture = NoGesture
    /\ fileLoad = Null /\ nextText = 1 /\ edits = <<>>
    /\ orders = <<>> /\ isUploading = FALSE /\ submit = IdleSubmit
    /\ exported = Null
    /\ IdleSync

InitSession ==
    /\ viewMode = EDITOR /\ isLoginModalOpen = FALSE
    /\ availableModels = SessionCatalog
    /\ selectedModel = firstOrNull(availableModels)
    /\ pendingDeleteId = "" /\ upload = IdleUpload /\ nextId = Len(SessionFiles) + 1
    /\ IdleSession

\* the events of the editor that change the image layer
ImageEvents ==
    \/ \E ev \in {<<-1, FALSE>>, <<1, TRUE>>} : handleWheel(ev[1], ev[2])
    \/ handleMouseDown
    \/ handleWindowMouseMove(R(51), R(-102))
    \/ \E touches \in {1, 2} : handleTouchStart(touches)
    \/ handleTouchMove(R(2))
    \/ setImageScale(Frac(1, 2))
    \/ setImageRotation(90)
    \/ handleCenter
    \/ handleAutoFill

\* the events of the editor that change one text layer
TextEvents ==
    \/ \E id \in TextIds(design) : handleTextMouseDown(id)
    \/ handleTextMouseMove(R(102), R(51))
    \/ \E id \in TextIds(design) : handleTextWheel(id, -1, FALSE)
    \/ \E id \in TextIds(design) : handleRotateDown(id)
    \/ \E angleDiff \in {90, -90} : handleRotateMove(angleDiff)
    \/ setTextScale(R(2))
    \/ setTextRotation(180)

\* the other events of the editor view
ListEvents ==
    \/ \E text \in {"Ann", ""} : handleAddText(text)
    \/ \E id \in TextIds(design) : deleteText(id)
    \/ backgroundClick
    \/ cancelSelection
    \/ handlePointerUp
    \/ setFont("Lato")
    \/ setColor("#ff0000")
    \/ \E img \in {imgPhoto, imgSmall, pdfSmall} : handleFileUpload(img)
    \/ fileLoaded

----------------------------------------------------------------------------
(* One run of processSingleTemplate, of shapeToPath and getShapeColorType,  *)
(* and of generatePrintFile, each on an input drawn from its input set      *)

InitTmpl == tDoc \in TemplateFiles /\ tOut = PendingOut

runTemplate ==
    /\ tOut.status = "pending"
    /\ tOut' = processSingleTemplate(tDoc, TemplateId(1))
    /\ UNCHANGED tDoc

InitShape ==
    /\ el \in ShapeInputs
    /\ elPath = [done |-> FALSE, path |-> <<>>]
    /\ elColor = "pending"

runShapeToPath ==
    /\ ~elPath.done
    /\ elPath' = [done |-> TRUE, path |-> shapeToPath(el)]
    /\ UNCHANGED <<el, elColor>>

runShapeColorType ==
    /\ elColor = "pending"
    /\ elColor' = getShapeColorType(el)
    /\ UNCHANGED <<el, elPath>>

InitPrint ==
    /\ pModel \in PrintModels
    /\ pDesign \in PrintDesigns
    /\ pOut = PendingPrint

runPrintFile ==
    /\ pOut.status = "pending"
    /\ pOut' = generatePrintFile(pModel, pDesign)
    /\ UNCHANGED <<pModel, pDesign>>

----------------------------------------------------------------------------
(* Specifications *)

IdleApp ==
    /\ viewMode = EDITOR /\ isAdmin = FALSE /\ isLoginModalOpen = FALSE
    /\ availableModels = <<>> /\ selectedModel = Null /\ pendingDeleteId = ""
    /\ upload = IdleUpload /\ nextId = 1

\* the application
Init == InitApp /\ IdleTmpl /\ IdleShape /\ IdlePrint /\ IdleSession
Next == NextApp /\ UNCHANGED <<tmplVars, shapeVars, printVars, editVars, orderVars, fileVars,
                               syncVars>>
Spec == Init /\ [][Next]_vars

\* the template builder on every document of TemplateFiles
InitTemplate == IdleApp /\ InitTmpl /\ IdleShape /\ IdlePrint /\ IdleSession
NextTemplate == runTemplate
                /\ UNCHANGED <<appVars, shapeVars, printVars, editVars, orderVars, fileVars,
                               syncVars>>
SpecTemplate == InitTemplate /\ [][NextTemplate]_vars

\* the geometry library and the colour classifier on every element of ShapeInputs
InitShapes == IdleApp /\ IdleTmpl /\ InitShape /\ IdlePrint /\ IdleSession
NextShapes == (runShapeToPath \/ runShapeColorType)
              /\ UNCHANGED <<appVars, tmplVars, printVars, editVars, orderVars, fileVars,
                            syncVars>>
SpecShapes == InitShapes /\ [][NextShapes]_vars

\* the compositor on every model of PrintModels and design of PrintDesigns
InitPrintFile == IdleApp /\ IdleTmpl /\ IdleShape /\ InitPrint /\ IdleSession
NextPrintFile == runPrintFile
                 /\ UNCHANGED <<appVars, tmplVars, shapeVars, editVars, orderVars, fileVars,
                               syncVars>>
SpecPrintFile == InitPrintFile /\ [][NextPrintFile]_vars

\* the editor: every event of PhoneEditor and of the editor view on a
\* non-admin session
InitEditor == InitSession /\ isAdmin = FALSE /\ IdleTmpl /\ IdleShape /\ IdlePrint
NextEditor ==
    /\ ImageEvents \/ TextEvents \/ ListEvents
    /\ UNCHANGED <<appVars, orderVars, tmplVars, shapeVars, printVars, fileVars, syncVars>>
SpecEditor == InitEditor /\ [][NextEditor]_vars

\* submission: a design is made, submitted and composited while the user
\* goes on using the application
InitOrders == InitSession /\ isAdmin \in BOOLEAN /\ IdleTmpl /\ IdleShape /\ IdlePrint
NextOrders ==
    /\ \/ ( \/ \E img \in {imgPhoto, imgFragile} : handleFileUpload(img)
            \/ fileLoaded
            \/ handleAddText("Ann") )
             /\ UNCHANGED <<appVars, orderVars>>
       \/ (handleSubmitOrder \/ submitRendered \/ submitTimer)
             /\ UNCHANGED <<appVars, editVars>>
       \/ submitSaved /\ UNCHANGED <<catalogVars, editVars>>
       \/ createAnother /\ UNCHANGED <<catalogVars, orderVars>>
       \/ showOrders /\ UNCHANGED <<catalogVars, editVars, orderVars>>
       \/ (\E view \in {EDITOR, TEMPLATES, ORDERS} : onChangeView(view))
             /\ UNCHANGED <<editVars, orderVars>>
       \/ (\E id \in ModelIds(availableModels) : selectModel(id))
             /\ UNCHANGED <<editVars, orderVars>>
    /\ UNCHANGED <<tmplVars, shapeVars, printVars, fileVars, syncVars>>
SpecOrders == InitOrders /\ [][NextOrders]_vars

\* the catalog: an admin on the templates page uploads, deletes, exports and
\* imports templates
sCaseFlat == Rect(Magenta, ColNone, Attr(0), Attr(0), Attr(100), Attr(0), NoAttr, NoAttr)
CatalogFiles ==
    { File(<<"case", ".svg">>, TRUE, TRUE, <<sCaseRect, sCamCircle>>),
      File(<<"flat", ".svg">>, TRUE, TRUE, <<sCaseFlat>>) }
ImportTexts == {BadText, ObjectText, JSONstringify(<<>>)}
                 \cup (IF exported = Null THEN {} ELSE {exported[1]})

InitCatalog ==
    /\ viewMode = TEMPLATES /\ isAdmin = TRUE /\ isLoginModalOpen = FALSE
    /\ availableModels \in StoredCatalogs
    /\ selectedModel = firstOrNull(availableModels)
    /\ pendingDeleteId = "" /\ upload = IdleUpload /\ nextId = 1
    /\ IdleTmpl /\ IdleShape /\ IdlePrint /\ IdleSession
\* the catalogs another device has saved to Firebase
RemoteCatalogs ==
    { <<>>,
      << processSingleTemplate(File(<<"remote", ".svg">>, TRUE, TRUE, <<sCaseStroke>>),
                               TemplateId(9)).model[1] >> }

NextCatalog ==
    /\ \/ handleExportTemplates
       \/ (\E text \in ImportTexts, confirmed \in BOOLEAN :
              handleImportTemplates(text, confirmed))
       \/ (\E templates \in RemoteCatalogs : onTemplatesSnapshot(templates))
       \/ ( \/ \E file \in CatalogFiles : handleTemplateUpload(<<file>>)
            \/ templateProcessed
            \/ \E id \in ModelIds(availableModels) : askDeleteTemplate(id)
            \/ confirmDeleteTemplate
            \/ \E view \in {EDITOR, TEMPLATES} : onChangeView(view)
            \/ \E confirmed \in BOOLEAN : handleDeleteModel(confirmed) )
             /\ UNCHANGED fileVars
    /\ UNCHANGED <<tmplVars, shapeVars, printVars, editVars, orderVars, syncVars>>
SpecCatalog == InitCatalog /\ [][NextCatalog]_vars

\* Firebase sync.  The other parts of the application stand still
IdleDesign ==
    /\ IdleApp /\ IdleTmpl /\ IdleShape /\ IdlePrint
    /\ design = INITIAL_DESIGN /\ selectedTextId = "" /\ gesture = NoGesture
    /\ fileLoad = Null /\ nextText = 1 /\ edits = <<>>
    /\ orders = <<>> /\ isUploading = FALSE /\ submit = IdleSubmit
    /\ exported = Null

syncFrame ==
    UNCHANGED <<appVars, tmplVars, shapeVars, printVars, editVars, orderVars, fileVars>>

\* browser 1 with the given localStorage, the page not yet open; browser 2
\* is not used
oneDevice(db, models, list) ==
    [d \in Devices |->
        IF d = 1
        THEN NewDevice(db, [models |-> models, orders |-> list, disabled |-> FALSE])
        ELSE NewDevice(FALSE, EmptyStorage)]

\* another client saves a catalog, submits an order or deletes one
remoteTemplates(templates) ==
    /\ ~firebase.quota /\ firebase.templates # Some(templates)
    /\ firebase.handled < MaxWrites
    /\ firebase' = handles(applied(firebase, Write("setTemplates", templates, "remote")))
    /\ UNCHANGED devices

remoteDelete(orderId) ==
    /\ ~firebase.quota /\ orderId \in firebase.orders
    /\ firebase.handled < MaxWrites
    /\ firebase' = handles(applied(firebase, Write("deleteOrder", orderId, "remote")))
    /\ UNCHANGED devices

\* the page opens and loads, the subscriptions deliver, the writes arrive
StartEvents(d) ==
    \/ mount(d)
    \/ \E fails \in BOOLEAN : loadTemplates(d, fails)
    \/ \E fails \in BOOLEAN : loadOrders(d, fails)
    \/ templatesSnapshot(d)
    \/ ordersSnapshot(d)
    \/ templatesFlagTimer(d)
    \/ ordersFlagTimer(d)
    \/ serverWrite(d)

\* start-up: the page is opened once, on every localStorage and project
InitStartup ==
    /\ IdleDesign
    /\ firebase \in [templates : {Null, Some({}), Some({"tA"})}, orders : {{}, {"o1"}},
                     deleted : {{}}, quota : {FALSE}, handled : {0}]
    /\ \E db \in BOOLEAN, models \in {Null, Some({}), Some({"tB"})},
          list \in {Null, Some({"o2"})} :
          devices = oneDevice(db, models, list)
NextStartup == StartEvents(1) /\ syncFrame
SpecStartup == InitStartup /\ [][NextStartup]_vars

\* one device at work while another client writes to the project
InitFirebase ==
    /\ IdleDesign
    /\ firebase = [EmptyFirebase EXCEPT !.templates = Some({"tA"}), !.orders = {"o1"}]
    /\ devices = oneDevice(TRUE, Null, Null)
NextFirebase ==
    /\ \/ StartEvents(1)
       \/ uploadTemplate(1, "tB")
       \/ deleteTemplate(1, "tA")
       \/ importTemplates(1, {"tB"})
       \/ submitOrder(1, "o2")
       \/ handleDeleteOrder(1, "o1")
       \/ \E templates \in {{}, {"tA", "tB"}} : remoteTemplates(templates)
       \/ remoteDelete("o1")
    /\ syncFrame
SpecFirebase == InitFirebase /\ [][NextFirebase]_vars

\* the project runs in and out of quota while one device works, closes and
\* opens the page
InitQuota ==
    /\ IdleDesign
    /\ firebase = [EmptyFirebase EXCEPT !.templates = Some({"tA"})]
    /\ devices = oneDevice(TRUE, Null, Some({"o1"}))
NextQuota ==
    /\ \/ mount(1)
       \/ loadTemplates(1, FALSE)
       \/ loadOrders(1, FALSE)
       \/ serverWrite(1)
       \/ unmount(1)
       \/ uploadTemplate(1, "tB")
       \/ submitOrder(1, "o2")
       \/ handleDeleteOrder(1, "o1")
       \/ \E templates \in BOOLEAN : subscriptionError(1, templates)
       \/ reEnableFirebase(1)
       \/ hideQuotaWarning(1)
       \/ quotaChanges
    /\ syncFrame
SpecQuota == InitQuota /\ [][NextQuota]_vars

\* two devices on the same project, both started and in sync with it
synced(templates, list) ==
    [NewDevice(TRUE, [models |-> Some(templates), orders |-> Some(list),
                      disabled |-> FALSE])
       EXCEPT !.on = TRUE, !.availableModels = templates, !.orders = list,
              !.load = "done", !.subscribedTemplates = TRUE, !.subscribedOrders = TRUE,
              !.seenTemplates = Some(templates), !.seenOrders = Some(list)]

InitDevices ==
    /\ IdleDesign
    /\ firebase = [EmptyFirebase EXCEPT !.templates = Some({"tA"}), !.orders = {"o1", "o2"}]
    /\ devices = [d \in Devices |-> synced({"tA"}, {"o1", "o2"})]
NextDevices ==
    /\ \/ \E d \in Devices :
            \/ templatesSnapshot(d)
            \/ ordersSnapshot(d)
            \/ templatesFlagTimer(d)
            \/ ordersFlagTimer(d)
            \/ serverWrite(d)
       \/ uploadTemplate(1, "tB")
       \/ uploadTemplate(2, "tC")
       \/ handleDeleteOrder(1, "o1")
       \/ handleDeleteOrder(2, "o2")
       \/ \E d \in Devices : submitOrder(d, "o3")
    /\ syncFrame
SpecDevices == InitDevices /\ [][NextDevices]_vars


----------------------------------------------------------------------------
(* Properties *)

\* the colour convention, stated as a table: the class of one colour value
MagentaValues == {<<255, 0, 255>>, <<236, 0, 140>>}
CyanValues    == {<<0, 255, 255>>, <<0, 174, 239>>}
RedValues     == {<<255, 0, 0>>, <<237, 28, 36>>}
ColorClassOf(c) ==
    IF c.kw \in {"", "none", "transparent"} \/ Len(c.nums) < 3 THEN "unknown"
    ELSE LET v == SubSeq(c.nums, 1, 3) IN
         IF v \in MagentaValues THEN "magenta"
         ELSE IF v \in CyanValues THEN "cyan"
         ELSE IF v \in RedValues THEN "red"
         ELSE "unknown"

\* fill decides when it belongs to a class, otherwise stroke does
ExpectedClass(e) ==
    IF ColorClassOf(e.fill) # "unknown" THEN ColorClassOf(e.fill)
    ELSE ColorClassOf(e.stroke)

ClassIndexes(shapes, class) ==
    {i \in 1..Len(shapes) : ExpectedClass(shapes[i]) = class}
MaxOf(S) == CHOOSE m \in S : \A n \in S : n <= m
Range(q) == {q[i] : i \in 1..Len(q)}
TemplateDone == tOut.status \in {"resolved", "rejected"}

\* C1: when several shapes of a document are of the outline (magenta) class,
\* the outline of the template is the last of them in document order, and
\* none of the earlier ones is among the cutouts or the safe-zone shapes.
C1_LastOutlineWins ==
    TemplateDone /\ tDoc.readable /\ tDoc.hasSvg =>
        LET M == ClassIndexes(tDoc.shapes, "magenta") IN
        Cardinality(M) > 1 =>
            /\ tOut.caseElement = Some(MaxOf(M))
            /\ \A i \in M : /\ i \notin Range(tOut.cameraElements)
                            /\ i \notin Range(tOut.safeZoneElements)
            /\ tOut.status = "resolved" =>
                 LET last == tDoc.shapes[MaxOf(M)] IN
                 /\ tOut.model[1].svgPath = shapeToPath(last)
                 /\ tOut.model[1].minX = getBBox(last).x
                 /\ tOut.model[1].minY = getBBox(last).y
                 /\ tOut.model[1].width = getBBox(last).width
                 /\ tOut.model[1].height = getBBox(last).height

\* a template built from a document whose first shape is an outline-class
\* rectangle and whose last shape is another outline-class shape
C1_Witness ==
    /\ tOut.status = "resolved"
    /\ Len(tDoc.shapes) = 3
    /\ tDoc.shapes[1] = sCaseRect
    /\ tDoc.shapes[3] = sCasePoly
    /\ tOut.model[1].svgPath = Triangle

\* the failing documents C2 is about
NoOutlineShape(file) ==
    file.readable /\ file.hasSvg /\ ClassIndexes(file.shapes, "magenta") = {}
OutlineHasNoPath(file) ==
    /\ file.readable /\ file.hasSvg
    /\ ClassIndexes(file.shapes, "magenta") # {}
    /\ LET last == file.shapes[MaxOf(ClassIndexes(file.shapes, "magenta"))] IN
       last.tag = "path" /\ last.d = <<>>

\* C2: a document without outline-class shape, or whose outline has no path,
\* fails with the diagnostic of its case and adds nothing to the successes;
\* the catalog grows by exactly the successes when the upload ends, and
\* when there is none the catalog and the selected model stay as they were.
C2_UploadAllOrNothing ==
    [][ upload.status = "running" /\ upload' # upload =>
          LET file == Head(upload.files) IN
          /\ NoOutlineShape(file) \/ OutlineHasNoPath(file) =>
                /\ upload'.success = upload.success
                /\ Len(upload'.errors) = Len(upload.errors) + 1
                /\ upload'.errors[Len(upload'.errors)] =
                     [fileName |-> file.name,
                      error |-> IF NoOutlineShape(file) THEN ErrNoMagenta
                                ELSE ErrNoPath]
          /\ upload'.status = "running" =>
                availableModels' = availableModels /\ selectedModel' = selectedModel
          /\ upload'.status = "done" =>
                /\ availableModels' = availableModels \o upload'.success
                /\ upload'.success = <<>> =>
                     availableModels' = availableModels /\ selectedModel' = selectedModel
      ]_vars

\* an upload of two documents, one of each failing kind, has ended against a
\* catalog that holds a template
C2_Witness ==
    /\ upload.status = "done"
    /\ upload.success = <<>>
    /\ Len(upload.errors) = 2
    /\ upload.errors[1].error = ErrNoMagenta
    /\ upload.errors[2].error = ErrNoPath
    /\ Len(availableModels) > 0
    /\ selectedModel # Null

ShapeClassified == elColor \notin {"pending", "idle"}
Skipped(c) == c.kw \in {"", "none", "transparent"}

\* C3: the class of a shape is the class of its fill when the fill belongs
\* to one of the three classes, otherwise the class of its stroke; a shape
\* with only a matching stroke is classified by the stroke, and a shape
\* without matching colour is "unknown".
C3_FirstMatchingColor ==
    ShapeClassified =>
        /\ elColor = ExpectedClass(el)
        /\ (Skipped(el.fill) \/ ColorClassOf(el.fill) = "unknown")
              => elColor = ColorClassOf(el.stroke)
        /\ (ColorClassOf(el.fill) = "unknown" /\ ColorClassOf(el.stroke) = "unknown")
              => elColor = "unknown"

\* a shape with fill none and a magenta stroke has been classified, and
\* so has one whose black fill is skipped in favour of its stroke
C3_Witness ==
    /\ ShapeClassified
    /\ el.fill = ColNone
    /\ el.stroke = MagentaAlt
    /\ elColor = "magenta"

\* the corners of the rectangle a path of the form M h v h Z runs through
PathBox(path) == PointsBBox(PathPoints(path))
OutlineOf(file) == file.shapes[MaxOf(ClassIndexes(file.shapes, "magenta"))]
InsetBox(bbox, inset) ==
    BBox(RAdd(bbox.x, inset), RAdd(bbox.y, inset),
         RSub(bbox.width, RMul(R(2), inset)), RSub(bbox.height, RMul(R(2), inset)))
Corners(b) ==
    { Pt(b.x, b.y), Pt(RAdd(b.x, b.width), b.y),
      Pt(RAdd(b.x, b.width), RAdd(b.y, b.height)), Pt(b.x, RAdd(b.y, b.height)) }

\* C4: without safe-zone-class shape the safe zone is the rectangle obtained
\* by insetting the bounding box of the outline by 0.05 x width on all four
\* edges.
C4_SynthesizedSafeZone ==
    tOut.status = "resolved" /\ ClassIndexes(tDoc.shapes, "red") = {} =>
        LET bbox == getBBox(OutlineOf(tDoc))
            inset == RDiv(bbox.width, R(20))
            path == tOut.model[1].safeZonePath
        IN  /\ PathBox(path) = InsetBox(bbox, inset)
            /\ Range(PathPoints(path)) = Corners(InsetBox(bbox, inset))

\* a template without safe-zone shape whose outline is taller than wide
C4_Witness ==
    /\ tOut.status = "resolved"
    /\ ClassIndexes(tDoc.shapes, "red") = {}
    /\ tOut.model[1].width = R(60)
    /\ tOut.model[1].height = R(120)
    /\ tOut.model[1].minX = R(10)

ScenarioShapes == <<sCaseRect, sCamCircle>>

\* C5 as stated: the scenario document yields a 100 x 200 model at the
\* origin with a cutout and the safe zone x=5, y=10, w=90, h=180.
C5_ScenarioAsStated ==
    tOut.status = "resolved" /\ tDoc.shapes = ScenarioShapes =>
        /\ tOut.model[1].width = R(100) /\ tOut.model[1].height = R(200)
        /\ tOut.model[1].minX = R(0) /\ tOut.model[1].minY = R(0)
        /\ tOut.model[1].cameraPath # <<>>
        /\ PathBox(tOut.model[1].safeZonePath) = BBox(R(5), R(10), R(90), R(180))

\* C5, amended: the scenario document yields a 100 x 200 model at the origin
\* with a cutout and the safe zone x=5, y=5, w=90, h=190 (5 = 5% of the
\* width, on both axes).
C5_ScenarioAmended ==
    TemplateDone /\ tDoc.shapes = ScenarioShapes =>
        /\ tOut.status = "resolved"
        /\ tOut.model[1].width = R(100) /\ tOut.model[1].height = R(200)
        /\ tOut.model[1].minX = R(0) /\ tOut.model[1].minY = R(0)
        /\ tOut.model[1].cameraPath = shapeToPath(sCamCircle)
        /\ tOut.model[1].cameraPath # <<>>
        /\ PathBox(tOut.model[1].safeZonePath) = BBox(R(5), R(5), R(90), R(190))

\* the scenario document has been processed
C5_Witness ==
    /\ tOut.status = "resolved"
    /\ tDoc.shapes = ScenarioShapes
    /\ Len(tOut.model[1].safeZonePath) = 5

\* C6 as stated: every template that is built has a non-empty outline path
\* and a non-empty safe-zone path, also when the document has safe-zone-class
\* shapes of which none has a path.
C6_PathsPresent ==
    tOut.status = "resolved" =>
        /\ tOut.model[1].svgPath # <<>>
        /\ tOut.model[1].safeZonePath # <<>>

\* a primitive without extent: a rectangle whose width or height, or a
\* circle or ellipse whose radius, is zero or negative
Degenerate(e) ==
    \/ e.tag = "rect" /\ (RLe(parseFloatOr0(e.width), R(0))
                          \/ RLe(parseFloatOr0(e.height), R(0)))
    \/ e.tag = "circle" /\ RLe(parseFloatOr0(e.r), R(0))
    \/ e.tag = "ellipse" /\ (RLe(parseFloatOr0(e.rx), R(0))
                             \/ RLe(parseFloatOr0(e.ry), R(0)))

\* C7 as stated: a document whose outline, a cutout or a safe-zone shape is
\* a primitive without extent is not turned into a template: its processing
\* ends with an error.
C7_DegenerateRejected ==
    TemplateDone /\ tDoc.readable /\ tDoc.hasSvg =>
        LET used == (IF ClassIndexes(tDoc.shapes, "magenta") # {}
                     THEN {OutlineOf(tDoc)} ELSE {})
                     \cup {tDoc.shapes[i] : i \in ClassIndexes(tDoc.shapes, "cyan")}
                     \cup {tDoc.shapes[i] : i \in ClassIndexes(tDoc.shapes, "red")}
        IN  (\E e \in used : Degenerate(e)) => tOut.status = "rejected"

RectDone == elPath.done /\ el.tag = "rect"
PositiveRect ==
    RGt(parseFloatOr0(el.width), R(0)) /\ RGt(parseFloatOr0(el.height), R(0))
DeclaredBox(e) ==
    BBox(parseFloatOr0(e.x), parseFloatOr0(e.y),
         parseFloatOr0(e.width), parseFloatOr0(e.height))

\* C8: for every rectangle of positive width and height, with or without
\* corner radii, the bounding box of the on-curve points of its path is the
\* declared (x, y, width, height).
C8_RectBoundingBox ==
    RectDone /\ PositiveRect => PathBox(elPath.path) = DeclaredBox(el)

\* a rounded rectangle whose declared radius exceeds both half sides
C8_Witness ==
    /\ RectDone
    /\ el.width = Attr(60) /\ el.height = Attr(40)
    /\ el.rx = Attr(80) /\ el.ry = NoAttr
    /\ Len(elPath.path) = 10

\* the radii as declared: rx, and ry or, when ry is absent, rx
DeclaredRx(e) == parseFloatOr0(e.rx)
DeclaredRy(e) == IF e.ry # NoAttr THEN parseFloatOr0(e.ry) ELSE parseFloatOr0(e.rx)
Rounded(e) == RGt(DeclaredRx(e), R(0)) \/ RGt(DeclaredRy(e), R(0))
\* the radii the path uses: the distance of the first point from the left
\* edge, and of the end of the first corner from the top edge
UsedRx(e, path) == RSub(path[1].args[1], parseFloatOr0(e.x))
UsedRy(e, path) == RSub(path[3].args[4], parseFloatOr0(e.y))
RoundedCmds == <<"M", "L", "Q", "L", "Q", "L", "Q", "L", "Q", "Z">>
PathCmds(path) == [i \in 1..Len(path) |-> path[i].cmd]
HalfShorterSide(e) == RHalf(RMin(parseFloatOr0(e.width), parseFloatOr0(e.height)))

\* C9 as stated: the radius used on both axes of a rounded rectangle is
\* min(declared radius, half of the shorter side), and the path is a closed
\* contour of 8 segments alternating straight edges and corners.
C9_ClampToShorterSide ==
    RectDone /\ PositiveRect /\ Rounded(el) =>
        /\ UsedRx(el, elPath.path) = RMin(DeclaredRx(el), HalfShorterSide(el))
        /\ UsedRy(el, elPath.path) = RMin(DeclaredRy(el), HalfShorterSide(el))
        /\ PathCmds(elPath.path) = RoundedCmds

\* C9, amended: the radius used on the x axis is min(rx, width / 2) and the
\* one used on the y axis is min(ry, height / 2), ry being rx when absent;
\* the path is a closed contour of 8 segments alternating straight edges and
\* corners.
C9_ClampPerAxis ==
    RectDone /\ PositiveRect /\ Rounded(el) =>
        /\ UsedRx(el, elPath.path) = RMin(DeclaredRx(el), RHalf(parseFloatOr0(el.width)))
        /\ UsedRy(el, elPath.path) = RMin(DeclaredRy(el), RHalf(parseFloatOr0(el.height)))
        /\ PathCmds(elPath.path) = RoundedCmds

\* a 100 x 40 rectangle with radius 30: 30 is used on the x axis, 20 on y
C9_Witness ==
    /\ RectDone
    /\ el.width = Attr(100) /\ el.height = Attr(40)
    /\ el.rx = Attr(30) /\ el.ry = NoAttr
    /\ UsedRx(el, elPath.path) = R(30)
    /\ UsedRy(el, elPath.path) = R(20)

\* canvas pixels of a point given in template-native coordinates: the frame
\* the outline path is drawn in is scaled by 2.5 and starts at (minX, minY)
NativeToCanvas(model, p) ==
    Pt(RMul(Frac(5, 2), RSub(p.x, model.minX)), RMul(Frac(5, 2), RSub(p.y, model.minY)))
ImageOps == SelectSeq(pOut.ops, LAMBDA o : o.op = "drawImage")
\* where the centre of the drawn image lands on the canvas
ImageCentre(o) == MatApply(o.ctm, Pt(RAdd(o.dx, RHalf(o.dw)), RAdd(o.dy, RHalf(o.dh))))

\* C10: the image's natural centre is placed at C + (x, y) in template-native
\* coordinates, C = (minX + width/2, minY + height/2), whatever the rotation
\* and the scale; the identity transform on the 100 x 200 model at the
\* origin places it at (50, 100).
C10_ImageCentre ==
    pOut.status = "resolved" =>
        /\ Len(ImageOps) = 1
        /\ ImageCentre(ImageOps[1]) =
             NativeToCanvas(pModel,
                Pt(RAdd(RAdd(pModel.minX, RHalf(pModel.width)), pDesign.x),
                   RAdd(RAdd(pModel.minY, RHalf(pModel.height)), pDesign.y)))
        /\ (/\ pModel.width = R(100) /\ pModel.height = R(200)
            /\ pModel.minX = R(0) /\ pModel.minY = R(0)
            /\ pDesign.scale = R(1) /\ pDesign.rotation = 0
            /\ pDesign.x = R(0) /\ pDesign.y = R(0))
           => ImageCentre(ImageOps[1]) = NativeToCanvas(pModel, Pt(R(50), R(100)))

\* a rotated, scaled and shifted image composited on a model whose bounding
\* box does not start at the origin
C10_Witness ==
    /\ pOut.status = "resolved"
    /\ pModel.minX = R(10) /\ pModel.minY = R(20)
    /\ pDesign.rotation = 90 /\ pDesign.scale = Frac(1, 2)
    /\ pDesign.x = R(25) /\ pDesign.y = R(40)
    /\ Len(pOut.ops) = 3

----------------------------------------------------------------------------
\* composition of two matrices: MatApply(MatMul(m, n), p) = MatApply(m, MatApply(n, p))
MatMul(m, n) ==
    Mat(RAdd(RMul(m.a, n.a), RMul(m.c, n.b)), RAdd(RMul(m.b, n.a), RMul(m.d, n.b)),
        RAdd(RMul(m.a, n.c), RMul(m.c, n.d)), RAdd(RMul(m.b, n.c), RMul(m.d, n.d)),
        RAdd(RAdd(RMul(m.a, n.e), RMul(m.c, n.f)), m.e),
        RAdd(RAdd(RMul(m.b, n.e), RMul(m.d, n.f)), m.f))

\* template-native coordinates to raster pixels: scale by k about (minX, minY)
NativeMat(model) ==
    Mat(scaleFactor, R(0), R(0), scaleFactor,
        RNeg(RMul(scaleFactor, model.minX)), RNeg(RMul(scaleFactor, model.minY)))

\* where an <image> shows its picture: preserveAspectRatio = xMidYMid meet,
\* the picture at the largest scale that fits the box, centred in it
ImageFit(e, natW, natH) ==
    LET sc == RMin(RDiv(e.width, natW), RDiv(e.height, natH))
        w  == RMul(natW, sc)
        h  == RMul(natH, sc)
    IN  BBox(RAdd(e.x, RHalf(RSub(e.width, w))), RAdd(e.y, RHalf(RSub(e.height, h))), w, h)

\* the corner (i, j) of a box, i and j in {0, 1}
BoxCorner(b, i, j) == Pt(RAdd(b.x, RMul(R(i), b.width)), RAdd(b.y, RMul(R(j), b.height)))

TextOps == SelectSeq(pOut.ops, LAMBDA o : o.op = "fillText")
PrintResolved == pOut.status = "resolved"

\* C11: for every model and design, each layer is placed by the editor as
\* generatePrintFile places it: the picture of the image layer covers the same
\* quadrilateral of the template (same centre, orientation and size), and each
\* text layer has the same transform, anchor, font and size.
C11_EditorMatchesPrint ==
    PrintResolved =>
        LET N   == NativeMat(pModel)
            e   == editorImage(pModel, pDesign)[1]
            nat == loadImage(pDesign.imageSrc)
            shown == ImageFit(e, nat.width, nat.height)
            o   == ImageOps[1]
            drawn == BBox(o.dx, o.dy, o.dw, o.dh)
            eT  == editorTexts(pModel, pDesign)
        IN  /\ Len(ImageOps) = 1
            /\ e.href = o.src
            /\ \A i \in {0, 1}, j \in {0, 1} :
                   MatApply(MatMul(N, e.transform), BoxCorner(shown, i, j))
                     = MatApply(o.ctm, BoxCorner(drawn, i, j))
            /\ Len(TextOps) = Len(eT)
            /\ \A i \in 1..Len(eT) :
                   /\ MatMul(N, eT[i].transform) = TextOps[i].ctm
                   /\ eT[i].x = TextOps[i].dx /\ eT[i].y = TextOps[i].dy
                   /\ eT[i].text = TextOps[i].text
                   /\ eT[i].fontSize = TextOps[i].font.size
                   /\ eT[i].fontFamily = TextOps[i].font.family
                   /\ eT[i].fontWeight = TextOps[i].font.weight
                   /\ eT[i].fill = TextOps[i].fillStyle
                   /\ eT[i].textAnchor = "middle" /\ TextOps[i].textAlign = "center"
                   /\ eT[i].dominantBaseline = TextOps[i].textBaseline

\* a rendered design with a rotated, displaced image whose stored height is
\* not the height of the decoded picture, on a template away from the
\* origin, with a rotated text layer
C11_Witness ==
    /\ PrintResolved
    /\ pDesign.rotation = 90 /\ pDesign.x # R(0) /\ pDesign.scale # R(1)
    /\ pDesign.imgHeight # Some(loadImage(pDesign.imageSrc).height)
    /\ pModel.minX # R(0)
    /\ Len(pDesign.textElements) = 2
    /\ pDesign.textElements[1].rotation = 90

----------------------------------------------------------------------------
\* the one clip in force at a draw operation is the outline, in place
ClippedToOutline(o) ==
    /\ Len(o.clip) = 1
    /\ o.clip[1].role = "svgPath"
    /\ o.clip[1].path = pModel.svgPath
    /\ o.clip[1].ctm = NativeMat(pModel)

\* C15: every draw operation of generatePrintFile runs while the clip region
\* is the outline path; the image is drawn first and the text layers after it
\* in the order of textElements; neither the cutout path nor the safe-zone
\* path is ever a clip region.
C15_ClippedToOutlineInOrder ==
    PrintResolved =>
        LET texts == pDesign.textElements IN
        /\ Len(pOut.ops) = 1 + Len(texts)
        /\ pOut.ops[1].op = "drawImage"
        /\ \A i \in 1..Len(texts) :
               /\ pOut.ops[i + 1].op = "fillText"
               /\ pOut.ops[i + 1].text = texts[i].text
               /\ pOut.ops[i + 1].font.size = RMul(texts[i].fontSize, texts[i].scale)
        /\ \A k \in 1..Len(pOut.ops) :
               /\ ClippedToOutline(pOut.ops[k])
               /\ \A c \in Range(pOut.ops[k].clip) :
                      c.role \notin {"cameraPath", "safeZonePath"}

\* a rendered design with two different text layers on a template that has a
\* cutout and a safe zone
C15_Witness ==
    /\ PrintResolved
    /\ Len(pDesign.textElements) = 2
    /\ pDesign.textElements[1].text # pDesign.textElements[2].text
    /\ pModel.cameraPath # <<>> /\ pModel.safeZonePath # <<>>
    /\ Len(pOut.ops) = 3

\* the transform of the image layer
imageLayer(d) == <<d.imageSrc, d.imgWidth, d.imgHeight, d.scale, d.x, d.y, d.rotation>>

\* the text layers of d2 are those of d1 except for at most one element
oneTextChanged(d1, d2) ==
    /\ Len(d2.textElements) = Len(d1.textElements)
    /\ Cardinality({i \in 1..Len(d1.textElements) :
                      d2.textElements[i] # d1.textElements[i]}) <= 1

\* C12: every event on the image transform (drag, wheel, pinch, sliders,
\* centre, auto-fit) leaves every text element as it was, and every event on
\* one text element (drag, wheel, rotation handle, sliders) leaves the image
\* transform and all other text elements as they were
C12_LayersIndependent ==
    [][ /\ ImageEvents => design'.textElements = design.textElements
        /\ TextEvents => /\ imageLayer(design') = imageLayer(design)
                         /\ oneTextChanged(design, design') ]_vars

\* C13: auto-fit on a design with an image sets the scale to
\* max(model.width / imgWidth, model.height / imgHeight) and x, y and the
\* rotation to 0, the scaled image covers the bounding box, and a second
\* auto-fit changes nothing
C13_AutoFillCovers ==
    [][ (handleAutoFill /\ canAutoFill(design, selectedModel)) =>
          LET model == selectedModel[1]
              imgW  == design.imgWidth[1]
              imgH  == design.imgHeight[1]
          IN  /\ design'.scale = RMax(RDiv(model.width, imgW), RDiv(model.height, imgH))
              /\ design'.x = R(0) /\ design'.y = R(0) /\ design'.rotation = 0
              /\ RLe(model.width, RMul(design'.scale, imgW))
              /\ RLe(model.height, RMul(design'.scale, imgH))
              /\ imageLayer(design')[1] = design.imageSrc
              /\ design'.textElements = design.textElements
              /\ autoFill(design', model) = design' ]_vars

\* auto-fit has just been applied to an image that had been zoomed, moved or
\* turned: it is fitted again
C13_Witness ==
    /\ Len(edits) = 2
    /\ edits[1] \in {"handleWheel", "handleWindowMouseMove", "handleTouchMove",
                     "setImageScale", "setImageRotation"}
    /\ edits[2] = "handleAutoFill"
    /\ design.imageSrc # ""
    /\ selectedModel # Null
    /\ design = autoFill(design, selectedModel[1])

\* C16: when the image of the design fails to decode during the composite,
\* generatePrintFile fails as a whole and returns no raster, and
\* handleSubmitOrder appends no order, keeps the view and clears the
\* uploading flag
C16_DecodeFailureAborts ==
    [][ (submitRendered /\ ~loadImage(submit.design.imageSrc).decodes) =>
          /\ generatePrintFile(submit.selectedModel, submit.design).status = "rejected"
          /\ generatePrintFile(submit.selectedModel, submit.design).ops = <<>>
          /\ orders' = orders
          /\ viewMode' = viewMode /\ viewMode' # SUCCESS
          /\ isUploading' = FALSE
          /\ submit'.pc = "idle" /\ submit'.order = Null ]_vars

\* a submission of a design whose image did not decode has ended with the
\* alert: there is no order, the editor is shown and the flag is clear
C16_Witness ==
    /\ submit.pc = "idle" /\ submit.alert = ErrPrintFile
    /\ design.imageSrc = imgFragile.src
    /\ orders = <<>> /\ viewMode = EDITOR /\ ~isUploading

\* C17: an appended order carries the rendered design with a null image
\* reference, the id and the name of the rendered model and the raster made
\* from exactly that model and design; no step of the submission changes
\* the live design
C17_OrderOfRenderedDesign ==
    [][ /\ handleSubmitOrder /\ selectedModel # Null =>
             submit'.design = design /\ submit'.selectedModel = selectedModel[1]
        /\ submitRendered /\ submit'.pc = "waiting" =>
             /\ submit'.design = submit.design
             /\ submit'.selectedModel = submit.selectedModel
             /\ submit'.order[1].design = [submit.design EXCEPT !.imageSrc = ""]
             /\ submit'.order[1].modelId = submit.selectedModel.id
             /\ submit'.order[1].modelName = submit.selectedModel.name
             /\ submit'.order[1].printFileUrl =
                    generatePrintFile(submit.selectedModel, submit.design)
        /\ submitTimer => orders' = <<submit.order[1]>> \o orders
        /\ (handleSubmitOrder \/ submitRendered \/ submitTimer \/ submitSaved) =>
             design' = design ]_vars

\* an order has been appended whose design is not what the editor shows any
\* more: a text was added while the composite was in flight
C17_Witness ==
    /\ Len(orders) = 1
    /\ orders[1].design.imageSrc = ""
    /\ orders[1].printFileUrl.status = "resolved"
    /\ design.imageSrc # ""
    /\ orders[1].design.textElements # design.textElements

\* C18: every step from the success view back to the editor shows the
\* initial DesignState
C18_ResetAfterSuccess ==
    [][ (viewMode = SUCCESS /\ viewMode' = EDITOR) => design' = INITIAL_DESIGN ]_vars

\* C19: selecting a template, or loading an image, creates the DesignState
\* anew with scale 1, rotation 0, offset (0,0) and no text element
C19_CreatedAnew ==
    [][ /\ selectedModel' # selectedModel => design' = INITIAL_DESIGN
        /\ (fileLoaded /\ design' # design) =>
             /\ design'.scale = R(1) /\ design'.rotation = 0
             /\ design'.x = R(0) /\ design'.y = R(0)
             /\ design'.textElements = <<>> ]_vars

\* the composite in flight was started for another design, model or view
staleSubmit ==
    /\ submit.pc # "idle"
    /\ \/ design # submit.design
       \/ selectedModel # Some(submit.selectedModel)
       \/ viewMode # EDITOR

\* C20: the completion of a stale submission appends no order and changes
\* neither the view nor the design
C20_StaleDiscarded ==
    [][ (staleSubmit /\ (submitRendered \/ submitTimer \/ submitSaved)) =>
          orders' = orders /\ viewMode' = viewMode /\ design' = design ]_vars

\* C14: the exported file read back is the exported catalog, field for
\* field, and a confirmed import of it replaces the catalog by it, whatever
\* the catalog holds at the import
C14_ExportImportRoundTrip ==
    [][ /\ handleExportTemplates =>
             JSONparse(exported'[1]).value = availableModels
        /\ \A text \in ImportTexts :
             (handleImportTemplates(text, TRUE) /\ text.valid /\ text.array) =>
                /\ availableModels' = JSONparse(text).value
                /\ selectedModel' = firstOrNull(availableModels') ]_vars

\* C21: a picture or a rendered PDF page below 300 pixels wide or below 500
\* pixels high is rejected before a DesignState is made of it: image,
\* transform and text elements of the current design stay as they are
C21_SmallAssetRejected ==
    [][ (/\ fileLoaded
         /\ \/ RLt(fileLoad[1].img.width, R(300))
            \/ RLt(fileLoad[1].img.height, R(500))) =>
          /\ design' = design
          /\ selectedTextId' = selectedTextId ]_vars

\* a page of 300 x 499 pixels, or a picture of 299 x 500, is being loaded
\* over a design that has an image, a changed transform and a text
C21_Witness ==
    /\ fileLoad # Null
    /\ fileLoad[1].img \in {imgSmall, pdfSmall}
    /\ design.imageSrc # ""
    /\ design.textElements # <<>>
    /\ edits # <<>>

\* C22: a turn of the rotation handle by +90 and then by -90 degrees brings
\* the rotation of the text back to its value, for every starting rotation
\* in [0, 360); it leaves offset, scale, font and colour of the text as they
\* were, and the stored rotation is in [0, 360)
C22_RotateRoundTrip ==
    [][ \A angleDiff \in {90, -90} :
          (handleRotateMove(angleDiff) /\ gesture.id \in TextIds(design)) =>
            LET before == findText(design.textElements, gesture.id)[1]
                after  == findText(design'.textElements, gesture.id)[1]
            IN  /\ after.rotation \in 0..359
                /\ gesture.startRotation \in 0..359 =>
                     newRotation(after.rotation, -angleDiff) = gesture.startRotation
                /\ after.x = before.x /\ after.y = before.y
                /\ after.scale = before.scale
                /\ after.fontFamily = before.fontFamily
                /\ after.color = before.color ]_vars

\* C30: the selected text id is null or the id of a text element of the
\* design
C30_SelectionExists == selectedTextId = "" \/ selectedTextId \in TextIds(design)

\* C29: the templates view and the orders view are shown only while the
\* admin flag is set, a template upload without the flag is ignored, and a
\* logout always returns the view to the editor
C29_AdminViewsGuarded ==
    /\ [](viewMode \in {TEMPLATES, ORDERS} => isAdmin)
    /\ [][ /\ (isAdmin /\ ~isAdmin') => viewMode' = EDITOR
           /\ ~isAdmin =>
                \A files \in SeqsUpTo(UploadFiles, MaxFiles) :
                   handleTemplateUpload(files) =>
                      UNCHANGED <<upload, availableModels, selectedModel, nextId>> ]_vars

\* the admin has asked for the deletion of a template on the templates page
\* and has then logged out: the editor is shown
C29_Witness ==
    /\ ~isAdmin
    /\ pendingDeleteId # ""
    /\ viewMode = EDITOR

\* C28: after uploads, deletions, imports and remote updates of the catalog
\* the selected model is null exactly when the catalog is empty and is
\* otherwise a model whose id is in the catalog, and both delete actions
\* refuse to delete the only model
C28_SelectedModelInCatalog ==
    /\ [](/\ selectedModel = Null <=> availableModels = <<>>
          /\ selectedModel # Null => selectedModel[1].id \in ModelIds(availableModels))
    /\ [][ (/\ Len(availableModels) <= 1
            /\ handleDeleteModel(TRUE) \/ confirmDeleteTemplate) =>
              availableModels' = availableModels ]_vars

\* the catalog has been emptied by an import after a template was uploaded:
\* no model is selected
C28_Witness ==
    /\ availableModels = <<>>
    /\ selectedModel = Null
    /\ nextId > 1

\* C23: while the page starts on a browser for which Firebase is available
\* and that is the only writer, a non-empty catalog held by Firebase is not
\* replaced by another one
C23_FirebaseCatalogKept ==
    [][ (/\ firebase.templates # Null
         /\ firebase.templates # Some({})
         /\ devices[1].on /\ devices[1].db) =>
           firebase'.templates = firebase.templates ]_vars

\* the writes a step has added to the queue of device d
newWrites(d) ==
    {devices'[d].outbox[i] : i \in (Len(devices[d].outbox) + 1)..Len(devices'[d].outbox)}

\* C24: when a local change of the catalog (upload, delete, import) or of the
\* order list (submission, delete) is made while Firebase is available,
\* localStorage holds the changed list after it and the change is sent to
\* Firebase
C24_LocalChangeSaved ==
    [][ isFirebaseAvailable(devices[1]) =>
          /\ (uploadTemplate(1, "tB") \/ deleteTemplate(1, "tA")
                \/ importTemplates(1, {"tB"})) =>
                /\ devices'[1].storage.models = Some(devices'[1].availableModels)
                /\ \E w \in newWrites(1) :
                      w.op = "setTemplates" /\ w.arg = devices'[1].availableModels
          /\ submitOrder(1, "o2") =>
                /\ devices'[1].storage.orders = Some(devices'[1].orders)
                /\ \E w \in newWrites(1) : w.op = "setOrder" /\ w.arg = "o2"
          /\ handleDeleteOrder(1, "o1") =>
                /\ devices'[1].storage.orders = Some(devices'[1].orders)
                /\ \E w \in newWrites(1) : w.op = "deleteOrder" /\ w.arg = "o1" ]_vars

C27_DisabledAfterQuotaError ==
    [][ /\ ( \/ /\ serverWrite(1) /\ firebase.quota
                /\ Head(devices[1].outbox).op \in {"setTemplates", "setOrder", "clearOrders"}
             \/ \E templates \in BOOLEAN : subscriptionError(1, templates) ) =>
              /\ devices'[1].storage.disabled
              /\ devices'[1].showQuotaWarning
        /\ (devices[1].storage.disabled /\ ~reEnableFirebase(1)) =>
              /\ devices'[1].storage.disabled
              /\ newWrites(1) = {}
              /\ devices'[1].load \in {"getTemplates", "getOrders"} =>
                    devices'[1].load = devices[1].load
              /\ devices'[1].subscribedTemplates => devices[1].subscribedTemplates
              /\ devices'[1].subscribedOrders => devices[1].subscribedOrders
        /\ reEnableFirebase(1) => isFirebaseAvailable(devices'[1])
        /\ isFirebaseAvailable(devices[1]) =>
              /\ mount(1) => /\ devices'[1].load = "getTemplates"
                             /\ devices'[1].subscribedTemplates
                             /\ devices'[1].subscribedOrders
              /\ uploadTemplate(1, "tB") =>
                    \E w \in newWrites(1) : w.op = "setTemplates"
              /\ submitOrder(1, "o2") =>
                    \E w \in newWrites(1) : w.op = "setOrder" /\ w.arg = "o2"
              /\ handleDeleteOrder(1, "o1") =>
                    \E w \in newWrites(1) : w.op = "deleteOrder" /\ w.arg = "o1" ]_vars

\* a write has failed on the quota, the page was closed and opened again
\* with Firebase still disabled: the load has skipped the templates read and
\* no subscription is open
C27_Witness ==
    /\ devices[1].storage.disabled
    /\ devices[1].on
    /\ devices[1].load = "noOrders"
    /\ ~devices[1].subscribedTemplates /\ ~devices[1].subscribedOrders
    /\ ~devices[1].showQuotaWarning
    /\ firebase.handled > 0

\* C25: with two devices writing to the same project, an order that was
\* deleted from Firebase is not in it again, and a template that no device
\* has deleted does not leave the catalog of Firebase
C25_ChangesNotUndone ==
    /\ [](firebase.orders \cap firebase.deleted = {})
    /\ [][ firebase.templates[1] \subseteq firebase'.templates[1] ]_vars

============================================================================
